---- MODULE Spec2Model ----
(***************************************************************************)
(* State-machine model of UniswapService (the variant with the background  *)
(* tick updater): the tick cache, the bitmap scan + tick-data fetch        *)
(* pipeline run on demand by getBestV3TradeExactIn and in the background   *)
(* by the worker of startBackgroundTickUpdater.                            *)
(*                                                                         *)
(* One action is one run of JavaScript between two awaits: the code from   *)
(* the resumption of an awaited promise up to the next await (or the       *)
(* return).  Arrays are heap objects named by a reference, so that         *)
(* sharing and mutation of a tick list are visible.                        *)
(*                                                                         *)
(* Spec runs the service as the program does: the worker, the clock, the   *)
(* constructor's provider init and one quote request at a time.            *)
(* SpecOverlap runs two overlapping quote requests next to the worker.     *)
(* SpecSteady and SpecRefresh run it on a chain that does not change.      *)
(* SpecScan runs the bitmap scan as a function of the bitmap content.      *)
(* SpecCover runs the scan over the whole tick range for each spacing.     *)
(* SpecRestart and SpecUpdater run start, stop and the worker under fair   *)
(* scheduling of the awaited reads and timers; SpecPools runs requests on  *)
(* two pairs; SpecPrice runs checkArbitrageOpportunity of PriceService;    *)
(* SpecMain runs main() of index.ts with its SIGINT handler.               *)
(***************************************************************************)
EXTENDS Integers, Sequences, FiniteSets, TLC

----------------------------------------------------------------------------
(* Bounds.  The tick range, the bitmap word width and the batch size are   *)
(* the program's constants scaled down (887272, 256 and 700 in the source) *)
(* so that a scan takes several batches.  MaxBits is the most bits set in  *)
(* a synthetic bitmap content, MaxTiers the longest list of fee tiers the  *)
(* tier loop is run on, MaxProbeTick and MaxProbeSpacing the greatest tick *)
(* (in absolute value) and tick spacing _tickToWord is applied to.         *)

MAX_TICK == 5
WORD_SIZE == 4
BATCH_SIZE == 2
MaxClockSteps == 1
NumWorkers == 2
MaxBits == 3
MaxTiers == 3
MaxProbeTick == 9
MaxProbeSpacing == 3

MIN_TICK == -MAX_TICK

(* The instants at which the clock is read, in ms: the first             *)
(* MaxClockSteps + 1 of 0 s, 150 s, 270 s, 390 s, ... (150 s, then 120 s   *)
(* apart).                                                                 *)
ClockInstant(n) == IF n = 0 THEN 0 ELSE 30000 + n * 120000

(* Program constants. *)
DEFAULT_BACKGROUND_UPDATE_INTERVAL_MS == 60000

(* The calls of getBestV3TradeExactIn that can be in progress at once.     *)
(* The program's own caller (PriceService.checkArbitrageOpportunity, run   *)
(* by the main loop) awaits each call before it makes the next.            *)
Requests == {"q1", "q2"}
SequentialRequests == {"q1"}
WorkerIds == 1..NumWorkers
NoWorker == 0

feeToTickSpacing(feeAmount) ==
    CASE feeAmount = "LOWEST" -> 1
      [] feeAmount = "LOW" -> 10
      [] feeAmount = "MEDIUM" -> 60
      [] feeAmount = "HIGH" -> 200
feeTiersToTry == <<"LOWEST">>

(* The output amounts a simulated swap can have, in base units of the      *)
(* output token (6 decimals).  The second has more than six significant    *)
(* digits.                                                                 *)
OutputAmounts == {982000, 1031404}

(* Pool.getAddress: a pool is named by its sorted token pair and its fee. *)
(* Pairs is the pair the price service asks quotes for, AllPairs the pairs *)
(* a caller of getBestV3TradeExactIn can ask for with the tokens of        *)
(* getToken.                                                               *)
Pairs == {"USDC/USDT"}
AllPairs == Pairs \cup {"WETH/USDC"}
PoolAddress(pair, fee) == <<pair, fee>>
Pools == { PoolAddress(pair, feeTiersToTry[k]) :
             pair \in AllPairs, k \in 1..Len(feeTiersToTry) }
poolsToUpdateInBackground ==
    << [address |-> PoolAddress("USDC/USDT", "LOWEST"),
        fee |-> "LOWEST",
        tickSpacing |-> feeToTickSpacing("LOWEST")] >>

----------------------------------------------------------------------------
(* The chain: each pool holds a set of liquidity positions.  A tick is     *)
(* initialized when some position ends on it.                              *)

Positions ==
    { [lo |-> -4, hi |-> 2, L |-> 1], [lo |-> -4, hi |-> 1, L |-> 2] }

(* The positions that are burnt while the program runs. *)
Burnable == { [lo |-> -4, hi |-> 2, L |-> 1] }

(* What position p adds to tick t: to its liquidityGross, to its           *)
(* liquidityNet, or to the liquidity in range when the price is at t.      *)
PositionShare(p, t, what) ==
    CASE what = "gross" -> IF p.lo = t \/ p.hi = t THEN p.L ELSE 0
      [] what = "net" -> IF p.lo = t THEN p.L ELSE IF p.hi = t THEN 0 - p.L ELSE 0
      [] what = "active" -> IF p.lo <= t /\ t < p.hi THEN p.L ELSE 0

RECURSIVE SumShares(_, _, _)
SumShares(ps, t, what) ==
    IF ps = {} THEN 0
    ELSE LET p == CHOOSE x \in ps : TRUE
         IN PositionShare(p, t, what) + SumShares(ps \ {p}, t, what)

ChainLiquidityGross(ps, t) == SumShares(ps, t, "gross")
ChainLiquidityNet(ps, t) == SumShares(ps, t, "net")
ChainLiquidity(ps, t) == SumShares(ps, t, "active")
ChainCurrentTick == 0

(* tickBitmap(word): the bits j whose tick (word*WORD_SIZE + j)*spacing is  *)
(* initialized.                                                            *)
ChainTickBitmap(ps, word, tickSpacing) ==
    { j \in 0..(WORD_SIZE - 1) :
        ChainLiquidityGross(ps, (word * WORD_SIZE + j) * tickSpacing) > 0 }
(* ticks(idx): the liquidity of one tick; call records the index asked.   *)
ChainTicks(ps, idx) ==
    [call |-> idx,
     liquidityGross |-> ChainLiquidityGross(ps, idx),
     liquidityNet |-> ChainLiquidityNet(ps, idx)]

----------------------------------------------------------------------------
(* Pure helpers of the pipeline. *)

(* _tickToWord that rounds the word toward zero. *)
_tickToWord_TowardZero(tick, tickSpacing) ==
    LET floored == tick \div tickSpacing
        compressed == IF tick < 0 /\ tick % tickSpacing # 0
                      THEN floored - 1 ELSE floored
    IN IF compressed < 0 THEN 0 - ((0 - compressed) \div WORD_SIZE)
       ELSE compressed \div WORD_SIZE

_tickToWord(tick, tickSpacing) ==
    LET floored == tick \div tickSpacing
        compressed == IF tick < 0 /\ tick % tickSpacing # 0
                      THEN floored - 1 ELSE floored
    IN compressed \div WORD_SIZE

(* for (let i = minWord; i <= maxWord; i++) wordPositions.push(i) *)
WordPositions(tickSpacing) ==
    LET minWord == _tickToWord(MIN_TICK, tickSpacing)
        maxWord == _tickToWord(MAX_TICK, tickSpacing)
    IN [k \in 1..(maxWord - minWord + 1) |-> minWord + k - 1]

(* Slice that stops one element before the end it is given. *)
Slice_Short(s, from, to) ==
    LET hi == IF to - 1 > Len(s) THEN Len(s) ELSE to - 1
    IN IF from >= hi THEN <<>> ELSE [k \in 1..(hi - from) |-> s[from + k]]

(* Array.prototype.slice(from, to) with 0-based from, exclusive to. *)
Slice(s, from, to) ==
    LET hi == IF to > Len(s) THEN Len(s) ELSE to
    IN IF from >= hi THEN <<>> ELSE [k \in 1..(hi - from) |-> s[from + k]]

(* SortAsc as sort() without a comparator does it: the elements compare  *)
(* as strings, so that (for indices of one digit) the negative ones come   *)
(* first, by ascending magnitude.                                          *)
RECURSIVE SortAsc_Default(_)
SortAsc_Default(s) ==
    IF Len(s) <= 1 THEN s
    ELSE LET before(a, b) ==
                 IF a < 0 /\ b < 0 THEN 0 - a <= 0 - b
                 ELSE IF a < 0 \/ b < 0 THEN a < 0
                 ELSE a <= b
             m == CHOOSE k \in 1..Len(s) : \A l \in 1..Len(s) : before(s[k], s[l])
             rest == [k \in 1..(Len(s) - 1) |-> IF k < m THEN s[k] ELSE s[k + 1]]
         IN <<s[m]>> \o SortAsc_Default(rest)

RECURSIVE SortAsc(_)
SortAsc(s) ==
    IF Len(s) <= 1 THEN s
    ELSE LET m == CHOOSE k \in 1..Len(s) : \A l \in 1..Len(s) : s[k] <= s[l]
             rest == [k \in 1..(Len(s) - 1) |-> IF k < m THEN s[k] ELSE s[k + 1]]
         IN <<s[m]>> \o SortAsc(rest)

(* DecodeWord without the test against MIN_TICK and MAX_TICK. *)
RECURSIVE DecodeWord_NoRangeCheck(_, _, _, _)
DecodeWord_NoRangeCheck(bitmap, bitmapWordIndex, tickSpacing, j) ==
    IF j >= WORD_SIZE THEN <<>>
    ELSE LET tickIndex == (bitmapWordIndex * WORD_SIZE + j) * tickSpacing
             here == IF j \in bitmap THEN <<tickIndex>> ELSE <<>>
         IN here \o DecodeWord_NoRangeCheck(bitmap, bitmapWordIndex, tickSpacing, j + 1)

(* DecodeWord with a bit loop that stops before the top bit. *)
RECURSIVE DecodeWord_SkipsTopBit(_, _, _, _)
DecodeWord_SkipsTopBit(bitmap, bitmapWordIndex, tickSpacing, j) ==
    IF j >= WORD_SIZE - 1 THEN <<>>
    ELSE LET tickIndex == (bitmapWordIndex * WORD_SIZE + j) * tickSpacing
             here == IF j \in bitmap /\ tickIndex >= MIN_TICK /\ tickIndex <= MAX_TICK
                     THEN <<tickIndex>> ELSE <<>>
         IN here \o DecodeWord_SkipsTopBit(bitmap, bitmapWordIndex, tickSpacing, j + 1)

(* The inner loop over the bits of one bitmap, j ascending. *)
RECURSIVE DecodeWord(_, _, _, _)
DecodeWord(bitmap, bitmapWordIndex, tickSpacing, j) ==
    IF j >= WORD_SIZE THEN <<>>
    ELSE LET tickIndex == (bitmapWordIndex * WORD_SIZE + j) * tickSpacing
             here == IF j \in bitmap /\ tickIndex >= MIN_TICK /\ tickIndex <= MAX_TICK
                     THEN <<tickIndex>> ELSE <<>>
         IN here \o DecodeWord(bitmap, bitmapWordIndex, tickSpacing, j + 1)

(* The outer loop over allBitmapResults, then the sort. *)
RECURSIVE DecodeFrom(_, _, _, _)
DecodeFrom(wordPositions, allBitmapResults, tickSpacing, i) ==
    IF i > Len(allBitmapResults) THEN <<>>
    ELSE DecodeWord(allBitmapResults[i], wordPositions[i], tickSpacing, 0)
         \o DecodeFrom(wordPositions, allBitmapResults, tickSpacing, i + 1)
DecodeBitmaps(wordPositions, allBitmapResults, tickSpacing) ==
    SortAsc(DecodeFrom(wordPositions, allBitmapResults, tickSpacing, 1))

(* One aggregated call: the results come back in the order of the calls. *)
BitmapBatch(ps, batchWordPositions, tickSpacing) ==
    [k \in 1..Len(batchWordPositions) |->
        ChainTickBitmap(ps, batchWordPositions[k], tickSpacing)]
TickDataBatch(ps, batchTickIndices) ==
    [k \in 1..Len(batchTickIndices) |-> ChainTicks(ps, batchTickIndices[k])]

(* BuildTicks with the result read one place further on than the index. *)
BuildTicks_Shifted(tickIndicesToFetch, allTickDataResults) ==
    LET n == Len(allTickDataResults)
        from(k) == allTickDataResults[IF k < n THEN k + 1 ELSE 1]
    IN [k \in 1..n |->
          [index |-> tickIndicesToFetch[k],
           call |-> from(k).call,
           liquidityGross |-> from(k).liquidityGross,
           liquidityNet |-> from(k).liquidityNet]]

(* for i < allTickDataResults.length: push(new Tick({index: idx[i], ...})) *)
BuildTicks(tickIndicesToFetch, allTickDataResults) ==
    [k \in 1..Len(allTickDataResults) |->
        [index |-> tickIndicesToFetch[k],
         call |-> allTickDataResults[k].call,
         liquidityGross |-> allTickDataResults[k].liquidityGross,
         liquidityNet |-> allTickDataResults[k].liquidityNet]]

(* RefreshBuildTicks with liquidityNet read from the gross field. *)
RefreshBuildTicks_GrossAsNet(tickIndicesToFetch, allTickDataResults) ==
    [k \in 1..Len(allTickDataResults) |->
        [BuildTicks(tickIndicesToFetch, allTickDataResults)[k]
            EXCEPT !.liquidityNet = allTickDataResults[k].liquidityGross]]

(* The copy of the tick loop in _refreshTickDataForPool. *)
RefreshBuildTicks(tickIndicesToFetch, allTickDataResults) ==
    BuildTicks(tickIndicesToFetch, allTickDataResults)

(* MoreBatches with a loop that stops one batch early. *)
MoreBatches_OneShort(i, n) == i + BATCH_SIZE < n

(* The loop condition of both batch loops: for (i = 0; i < n; i += BATCH_SIZE) *)
MoreBatches(i, n) == i < n

(* all = all.concat(batch) *)
Concat(all, batch) == all \o batch

(* The bitmap stage run to its end: the batch loop over wordPositions with *)
(* batches of batchSize, from offset i on, all being the results so far.   *)
RECURSIVE BitmapScanFrom(_, _, _, _, _, _)
BitmapScanFrom(ps, wordPositions, tickSpacing, batchSize, i, all) ==
    IF MoreBatches(i, Len(wordPositions))
    THEN BitmapScanFrom(ps, wordPositions, tickSpacing, batchSize, i + batchSize,
             Concat(all, BitmapBatch(ps, Slice(wordPositions, i, i + batchSize),
                                     tickSpacing)))
    ELSE all

(* timeBitmapFetching of the batch-size optimizer: the scan with the batch *)
(* size as a parameter, decoded and sorted.                                *)
timeBitmapFetching(ps, tickSpacing, batchSize) ==
    LET wordPositions == WordPositions(tickSpacing)
    IN SortAsc(DecodeFrom(wordPositions,
                          BitmapScanFrom(ps, wordPositions, tickSpacing, batchSize, 0, <<>>),
                          tickSpacing, 1))

(* The scan of _fetchAllInitializedTicks, which sorts the indices. *)
ScanSorted(ps, tickSpacing) ==
    LET wordPositionsInternal == WordPositions(tickSpacing)
    IN DecodeBitmaps(wordPositionsInternal,
                     BitmapScanFrom(ps, wordPositionsInternal, tickSpacing, BATCH_SIZE,
                                    0, <<>>),
                     tickSpacing)

(* The scan of the earlier _fetchAllInitializedTicks, which has no sort:   *)
(* the indices stay in the order of the word and bit loops.                *)
ScanUnsorted(ps, tickSpacing) ==
    LET wordPositions == WordPositions(tickSpacing)
    IN DecodeFrom(wordPositions,
                  BitmapScanFrom(ps, wordPositions, tickSpacing, BATCH_SIZE, 0, <<>>),
                  tickSpacing, 1)

(* The list a pipeline run builds when all its reads see the positions ps. *)
ChainTickList(ps, tickSpacing) ==
    LET tickIndicesToFetch == ScanSorted(ps, tickSpacing)
    IN BuildTicks(tickIndicesToFetch, TickDataBatch(ps, tickIndicesToFetch))

(* The fee tiers of FeeAmount and the tick spacings they have. *)
FeeAmounts == {"LOWEST", "LOW", "MEDIUM", "HIGH"}
TickSpacings == { feeToTickSpacing(f) : f \in FeeAmounts }

(* A synthetic bitmap content: the compressed positions c whose bit is set, *)
(* as the chain would report them if exactly the ticks c * tickSpacing     *)
(* were initialized.                                                       *)
InitializedAt(bits, tickSpacing) ==
    { [lo |-> c * tickSpacing, hi |-> c * tickSpacing, L |-> 1] : c \in bits }

(* The compressed positions the words of the scan cover. *)
ScannedPositions(tickSpacing) ==
    LET wordPositions == WordPositions(tickSpacing)
    IN (wordPositions[1] * WORD_SIZE) ..
         (wordPositions[Len(wordPositions)] * WORD_SIZE + WORD_SIZE - 1)

(* The subsets of S of at most n elements. *)
RECURSIVE SetsUpTo(_, _)
SetsUpTo(S, n) ==
    IF n = 0 THEN {{}}
    ELSE LET smaller == SetsUpTo(S, n - 1)
         IN smaller \cup { B \cup {x} : B \in smaller, x \in S }

----------------------------------------------------------------------------
(* State. *)

VARIABLES
    clock,                \* the number of the instant the clock is at
    chain,                \* pool -> the positions it holds on chain
    multicallProvider,    \* TRUE when this.multicallProvider is not null
    ctorInit,             \* the constructor's unawaited _initializeMulticallProvider
    tickCache,            \* pool -> NoEntry or [data |-> array ref, timestamp]
    heap,                 \* array ref -> the Tick[] it holds
    isBackgroundUpdaterRunning,
    backgroundUpdaterAbortController,  \* the worker whose signal it aborts, or NoWorker
    wk,                   \* worker -> its loop (signal, position, locals)
    req,                  \* request -> a getBestV3TradeExactIn call
    probe,                \* one run of a part of the service on synthetic input
    arb,                  \* the call of PriceService.checkArbitrageOpportunity
    controlLog,           \* the last line startBackgroundTickUpdater or stop... logged
    main                  \* main() of index.ts: its loop, keepRunning, the exit timer

vars == <<clock, chain, multicallProvider, ctorInit, tickCache, heap,
          isBackgroundUpdaterRunning, backgroundUpdaterAbortController, wk, req,
          probe, arb, controlLog, main>>

NoEntry == [data |-> 0, timestamp |-> -1]
NoArr == 0
ArrIds == 1..(Cardinality(Pools) + Cardinality(Requests) + NumWorkers)

(* Date.now() *)
DateNow == ClockInstant(clock)

REASONABLE_STALENESS_MS == DEFAULT_BACKGROUND_UPDATE_INTERVAL_MS * 2

(* The locals of one pipeline run, shared by both copies of the pipeline:  *)
(* the batch offset i, allBitmapResults, tickIndicesToFetch,               *)
(* allTickDataResults and the reference of allInitializedTicks.            *)
NoRun == [i |-> 0, bitmaps |-> <<>>, idx |-> <<>>, res |-> <<>>, arr |-> NoArr]

(* last is what the last refresh of the worker's cycle logged when it      *)
(* ended; the log outlives the worker.                                     *)
IdleWorker ==
    [pc |-> "none", aborted |-> FALSE, k |-> 0, waitUntil |-> 0, last |-> "none",
     run |-> NoRun]

(* lookup is what the last cache lookup logged (HIT, STALE or MISS, with   *)
(* the entry's age), batch the number in the last "Executing multicall for *)
(* ... batch k/n" line, fetch what the on-demand fetch logged when it      *)
(* ended.                                                                  *)
(* tierLog is what the tier loop logged when it left the last tier: skip,  *)
(* poolSetupError, tradeError or trade.  bestTrade is null (NoTrade) or    *)
(* the trade of a fee tier with its output amount.                         *)
NoLookup == [kind |-> "none", age |-> 0]
NoTrade == [fee |-> "none", outputAmount |-> 0]
IdleRequest ==
    [pc |-> "idle", pair |-> "none", tier |-> 0, liq |-> 0,
     lookup |-> NoLookup, batch |-> 0, fetch |-> "none", tierLog |-> "none",
     bestTrade |-> NoTrade, result |-> "none", run |-> NoRun]

(* Garbage collection: an array no cache entry and no local refers to is gone. *)
Refs(c, rq, w) ==
    ({ c[p].data : p \in Pools } \cup { rq[r].run.arr : r \in Requests }
       \cup { w[x].run.arr : x \in WorkerIds }) \ {NoArr}
NewArr(c, rq, w) ==
    CHOOSE a \in ArrIds \ Refs(c, rq, w) : \A b \in ArrIds \ Refs(c, rq, w) : a <= b
Commit(h, c, rq, w) ==
    /\ tickCache' = c
    /\ req' = rq
    /\ wk' = w
    /\ heap' = [a \in ArrIds |-> IF a \in Refs(c, rq, w) THEN h[a] ELSE <<>>]

(* No run of a part of the service on synthetic input is under way: no     *)
(* scan of a bitmap content, no tier loop over a list of tier outcomes, no *)
(* pool construction from a tick list, no word computed for a tick.        *)
NoProbe ==
    [stage |-> "none", tickSpacing |-> 0, bits |-> {}, word |-> 0, batchSize |-> 0,
     batchSize2 |-> 0, sorted |-> <<>>, unsorted |-> <<>>, out |-> <<>>, out2 |-> <<>>,
     tiers |-> <<>>, k |-> 0, bestTrade |-> NoTrade, result |-> "none",
     totalLiquidity |-> 0, ticks |-> <<>>, outcome |-> "none", tick |-> 0]

(* checkArbitrageOpportunity: halted is what isChainHalted reported, the    *)
(* prices are mayaUsdcPriceInUsdt and uniswapUsdcPriceInUsdt in millionths *)
(* (0 when there is none), result is what the call returned.               *)
NoResult ==
    [kind |-> "none", direction |-> "none", priceDifferencePercent |-> [num |-> 0, den |-> 1]]
ReturnNull == [NoResult EXCEPT !.kind = "null"]
IdleArb ==
    [pc |-> "idle", halted |-> FALSE, mayaPrice |-> 0, uniswapPrice |-> 0,
     result |-> NoResult]

(* main() is not running: the service is driven by its callers directly.  *)
(* pc is where main is (cycle: it awaits checkArbitrageOpportunity; sleep: *)
(* it awaits a 100 ms timer of the sleep loop; ended: its finally block    *)
(* has run), polls the number of 100 ms timers left before sleepUntil,     *)
(* exit the state of the handler's exit timer (armed) and of the process   *)
(* (exited), asset config.bot.targetAssets[0].                             *)
NoMain ==
    [pc |-> "none", keepRunning |-> TRUE, polls |-> 0, exit |-> "none", asset |-> "none"]

(* At the start the background pool holds every position and the other    *)
(* pools hold none.                                                        *)
InitialChain ==
    [p \in Pools |-> IF p = poolsToUpdateInBackground[1].address THEN Positions ELSE {}]

Init ==
    /\ clock = 0
    /\ chain = InitialChain
    /\ multicallProvider = FALSE
    /\ ctorInit = "pending"
    /\ tickCache = [p \in Pools |-> NoEntry]
    /\ heap = [a \in ArrIds |-> <<>>]
    /\ isBackgroundUpdaterRunning = FALSE
    /\ backgroundUpdaterAbortController = NoWorker
    /\ wk = [w \in WorkerIds |-> IdleWorker]
    /\ req = [r \in Requests |-> IdleRequest]
    /\ arb = IdleArb
    /\ controlLog = "none"
    /\ main = NoMain
    /\ probe = NoProbe

----------------------------------------------------------------------------
(* The environment: the clock, the chain, the constructor's provider init. *)

Tick ==
    /\ clock < MaxClockSteps
    /\ clock' = clock + 1
    /\ UNCHANGED <<main, controlLog, arb, probe, chain, multicallProvider, ctorInit, tickCache, heap,
                   isBackgroundUpdaterRunning, backgroundUpdaterAbortController, wk, req>>

(* A position is burnt on chain. *)
ChainChange(p, pos) ==
    /\ pos \in chain[p]
    /\ chain' = [chain EXCEPT ![p] = @ \ {pos}]
    /\ UNCHANGED <<main, controlLog, arb, probe, clock, multicallProvider, ctorInit, tickCache, heap,
                   isBackgroundUpdaterRunning, backgroundUpdaterAbortController, wk, req>>

(* _initializeMulticallProvider after its await of provider.getNetwork():  *)
(* the provider is set, or the catch block sets it to null.                *)
CtorInitDone(ok) ==
    /\ ctorInit = "pending"
    /\ ctorInit' = "done"
    /\ multicallProvider' = ok
    /\ UNCHANGED <<main, controlLog, arb, probe, clock, chain, tickCache, heap,
                   isBackgroundUpdaterRunning, backgroundUpdaterAbortController, wk, req>>

----------------------------------------------------------------------------
(* StoreTicks that sets the entry of every pool. *)
StoreTicks_EveryPool(h, c, pool, arr, ticks, t) ==
    [heap |-> [h EXCEPT ![arr] = ticks],
     cache |-> [p \in Pools |-> [data |-> arr, timestamp |-> t]]]

(* StoreTicks that adds the new ticks to those of the entry it replaces. *)
StoreTicks_Append(h, c, pool, arr, ticks, t) ==
    LET previous == IF c[pool] = NoEntry THEN <<>> ELSE h[c[pool].data]
    IN [heap |-> [h EXCEPT ![arr] = previous \o ticks],
        cache |-> [c EXCEPT ![pool] = [data |-> arr, timestamp |-> t]]]

(* StoreTicks that refills the array of the entry already in the cache. *)
StoreTicks_InPlace(h, c, pool, arr, ticks, t) ==
    IF c[pool] = NoEntry
    THEN [heap |-> [h EXCEPT ![arr] = ticks],
          cache |-> [c EXCEPT ![pool] = [data |-> arr, timestamp |-> t]]]
    ELSE [heap |-> [h EXCEPT ![c[pool].data] = ticks],
          cache |-> [c EXCEPT ![pool].timestamp = t]]

(* The end of a successful pipeline run: the loop that fills the run's own *)
(* array, then tickCache.set with a new entry.                             *)
StoreTicks(h, c, pool, arr, ticks, t) ==
    [heap |-> [h EXCEPT ![arr] = ticks],
     cache |-> [c EXCEPT ![pool] = [data |-> arr, timestamp |-> t]]]

----------------------------------------------------------------------------
(* The background worker. *)

(* WorkerCycleFrom without the abort checks inside the cycle: only the     *)
(* while condition looks at the signal.                                    *)
WorkerCycleFrom_NoAbortCheck(rec, k, mp, t) ==
    IF k <= Len(poolsToUpdateInBackground)
    THEN [rec EXCEPT !.k = k, !.run = NoRun,
                     !.pc = IF mp THEN "bitmaps" ELSE "initMc"]
    ELSE [rec EXCEPT !.pc = "wait", !.k = 0, !.run = NoRun,
                     !.waitUntil = t + DEFAULT_BACKGROUND_UPDATE_INTERVAL_MS]

(* The for loop over poolsToUpdateInBackground from pool number k on, up   *)
(* to the next await: the first statement of _refreshTickDataForPool that  *)
(* suspends, the inter-cycle wait, or the end of the worker.               *)
WorkerCycleFrom(rec, k, mp, t) ==
    IF k <= Len(poolsToUpdateInBackground) /\ ~rec.aborted
    THEN [rec EXCEPT !.k = k, !.run = NoRun,
                     !.pc = IF mp THEN "bitmaps" ELSE "initMc"]
    ELSE IF rec.aborted
    THEN [IdleWorker EXCEPT !.last = rec.last]
    ELSE [rec EXCEPT !.pc = "wait", !.k = 0, !.run = NoRun,
                     !.waitUntil = t + DEFAULT_BACKGROUND_UPDATE_INTERVAL_MS]

(* while (!signal.aborted) { ... } *)
WorkerLoopTop(rec, mp, t) ==
    IF rec.aborted THEN [IdleWorker EXCEPT !.last = rec.last]
    ELSE WorkerCycleFrom([rec EXCEPT !.last = "none"], 1, mp, t)

(* FlagAfter in which the worker leaves the flag as it is. *)
FlagAfter_Keeps(rec, flag) == flag

(* The worker's last statement resets the flag. *)
FlagAfter(rec, flag) == IF rec.pc = "none" THEN FALSE ELSE flag

(* startBackgroundTickUpdater guarded by the controller, not by the flag. *)
startBackgroundTickUpdater_ByController ==
    /\ backgroundUpdaterAbortController = NoWorker
    /\ \E w \in WorkerIds :
         /\ wk[w].pc = "none"
         /\ \A x \in WorkerIds : wk[x].pc = "none" => w <= x
         /\ backgroundUpdaterAbortController' = w
         /\ wk' = [wk EXCEPT ![w] = WorkerLoopTop(IdleWorker, multicallProvider, DateNow)]
         /\ isBackgroundUpdaterRunning' = TRUE
    /\ controlLog' = "starting"
    /\ UNCHANGED <<main, arb, probe, clock, chain, multicallProvider, ctorInit, tickCache,
                   heap, req>>

startBackgroundTickUpdater ==
    /\ ~isBackgroundUpdaterRunning
    /\ \E w \in WorkerIds :
         /\ wk[w].pc = "none"
         /\ \A x \in WorkerIds : wk[x].pc = "none" => w <= x
         /\ backgroundUpdaterAbortController' = w
         /\ wk' = [wk EXCEPT ![w] = WorkerLoopTop(IdleWorker, multicallProvider, DateNow)]
         /\ isBackgroundUpdaterRunning' = TRUE
    /\ controlLog' = "starting"
    /\ UNCHANGED <<main, arb, probe, clock, chain, multicallProvider, ctorInit, tickCache,
                   heap, req>>

(* startBackgroundTickUpdater called while the flag is set: it logs that   *)
(* the updater is already running and returns.                             *)
StartWhileRunning ==
    /\ isBackgroundUpdaterRunning
    /\ controlLog' = "alreadyRunning"
    /\ UNCHANGED <<main, arb, probe, clock, chain, multicallProvider, ctorInit, tickCache,
                   heap, isBackgroundUpdaterRunning, backgroundUpdaterAbortController,
                   wk, req>>

(* The body of stopBackgroundTickUpdater, as its callers run it. *)
StopCall ==
    IF backgroundUpdaterAbortController # NoWorker
    THEN /\ wk' = [wk EXCEPT ![backgroundUpdaterAbortController].aborted = TRUE]
         /\ backgroundUpdaterAbortController' = NoWorker
         /\ controlLog' = "stopping"
    ELSE UNCHANGED <<wk, backgroundUpdaterAbortController, controlLog>>

(* stopBackgroundTickUpdater that also clears the cache. *)
stopBackgroundTickUpdater_ClearCache ==
    /\ backgroundUpdaterAbortController # NoWorker
    /\ Commit(heap, [p \in Pools |-> NoEntry], req,
              [wk EXCEPT ![backgroundUpdaterAbortController].aborted = TRUE])
    /\ backgroundUpdaterAbortController' = NoWorker
    /\ controlLog' = "stopping"
    /\ UNCHANGED <<main, arb, probe, clock, chain, multicallProvider, ctorInit,
                   isBackgroundUpdaterRunning>>

stopBackgroundTickUpdater ==
    /\ backgroundUpdaterAbortController # NoWorker
    /\ StopCall
    /\ UNCHANGED <<main, arb, probe, clock, chain, multicallProvider, ctorInit, tickCache,
                   heap, isBackgroundUpdaterRunning, req>>

(* RefreshCatch that drops the pool's entry. *)
RefreshCatch_Evict(c, poolAddress) == [c EXCEPT ![poolAddress] = NoEntry]

(* The catch block of _refreshTickDataForPool: it logs, the cache stays. *)
RefreshCatch(c, poolAddress) == c

(* _refreshTickDataForPool returns, having logged `what`, and the worker   *)
(* goes on.                                                                *)
RefreshReturn(w, what, h, c, mp) ==
    LET rec == WorkerCycleFrom([wk[w] EXCEPT !.last = what], wk[w].k + 1, mp, DateNow)
    IN /\ Commit(h, c, req, [wk EXCEPT ![w] = rec])
       /\ isBackgroundUpdaterRunning' = FlagAfter(rec, isBackgroundUpdaterRunning)

RefreshError(w, mp) ==
    RefreshReturn(w, "error", heap,
                  RefreshCatch(tickCache, poolsToUpdateInBackground[wk[w].k].address), mp)

(* await this._initializeMulticallProvider() inside the refresh. *)
RefreshInitDone(w, ok) ==
    /\ wk[w].pc = "initMc"
    /\ multicallProvider' = ok
    /\ IF ok
       THEN /\ Commit(heap, tickCache, req, [wk EXCEPT ![w].pc = "bitmaps"])
            /\ UNCHANGED isBackgroundUpdaterRunning
       ELSE RefreshReturn(w, "noProvider", heap, tickCache, FALSE)
    /\ UNCHANGED <<main, controlLog, arb, probe, clock, chain, ctorInit, backgroundUpdaterAbortController>>

(* One bitmap batch comes back (or throws). *)
RefreshBitmapBatch(w, ok) ==
    /\ wk[w].pc = "bitmaps"
    /\ LET info == poolsToUpdateInBackground[wk[w].k]
           run == wk[w].run
           wordPositions == WordPositions(info.tickSpacing)
           allBitmapResults ==
               Concat(run.bitmaps, BitmapBatch(chain[info.address],
                   Slice(wordPositions, run.i, run.i + BATCH_SIZE), info.tickSpacing))
           i == run.i + BATCH_SIZE
           tickIndicesToFetch ==
               DecodeBitmaps(wordPositions, allBitmapResults, info.tickSpacing)
       IN IF ~ok
          THEN RefreshError(w, multicallProvider)
          ELSE IF MoreBatches(i, Len(wordPositions))
          THEN IF multicallProvider
               THEN /\ Commit(heap, tickCache, req,
                        [wk EXCEPT ![w].run = [run EXCEPT !.i = i,
                                                          !.bitmaps = allBitmapResults]])
                    /\ UNCHANGED isBackgroundUpdaterRunning
               ELSE RefreshError(w, multicallProvider)
          ELSE IF Len(tickIndicesToFetch) = 0
          THEN RefreshReturn(w, "noTicks", heap, tickCache, multicallProvider)
          ELSE IF ~multicallProvider
          THEN RefreshError(w, multicallProvider)
          ELSE /\ Commit(heap, tickCache, req,
                   [wk EXCEPT ![w].pc = "ticks",
                              ![w].run = [i |-> 0, bitmaps |-> <<>>,
                                          idx |-> tickIndicesToFetch, res |-> <<>>,
                                          arr |-> NewArr(tickCache, req, wk)]])
               /\ UNCHANGED isBackgroundUpdaterRunning
    /\ UNCHANGED <<main, controlLog, arb, probe, clock, chain, multicallProvider, ctorInit,
                   backgroundUpdaterAbortController>>

(* One tick-data batch comes back (or throws). *)
RefreshTickBatch(w, ok) ==
    /\ wk[w].pc = "ticks"
    /\ LET info == poolsToUpdateInBackground[wk[w].k]
           run == wk[w].run
           allTickDataResults ==
               Concat(run.res, TickDataBatch(chain[info.address],
                                             Slice(run.idx, run.i, run.i + BATCH_SIZE)))
           i == run.i + BATCH_SIZE
           allInitializedTicks == RefreshBuildTicks(run.idx, allTickDataResults)
           stored == StoreTicks(heap, tickCache, info.address, run.arr,
                                allInitializedTicks, DateNow)
       IN IF ~ok
          THEN RefreshError(w, multicallProvider)
          ELSE IF MoreBatches(i, Len(run.idx))
          THEN IF multicallProvider
               THEN /\ Commit(heap, tickCache, req,
                        [wk EXCEPT ![w].run = [run EXCEPT !.i = i,
                                                          !.res = allTickDataResults]])
                    /\ UNCHANGED isBackgroundUpdaterRunning
               ELSE RefreshError(w, multicallProvider)
          ELSE IF Len(allInitializedTicks) > 0
          THEN RefreshReturn(w, "cached", stored.heap, stored.cache, multicallProvider)
          ELSE RefreshReturn(w, "noTicks", heap, tickCache, multicallProvider)
    /\ UNCHANGED <<main, controlLog, arb, probe, clock, chain, multicallProvider, ctorInit,
                   backgroundUpdaterAbortController>>

(* The inter-cycle timer fires. *)
WorkerWaitDone(w) ==
    /\ wk[w].pc = "wait"
    /\ DateNow >= wk[w].waitUntil
    /\ LET rec == WorkerLoopTop(wk[w], multicallProvider, DateNow)
       IN /\ wk' = [wk EXCEPT ![w] = rec]
          /\ isBackgroundUpdaterRunning' = FlagAfter(rec, isBackgroundUpdaterRunning)
    /\ UNCHANGED <<main, controlLog, arb, probe, clock, chain, multicallProvider, ctorInit, tickCache,
                   heap, backgroundUpdaterAbortController, req>>

(* An error leaves the worker (a call of the logger throws; what           *)
(* _refreshTickDataForPool awaits is inside its try block): the promise of *)
(* worker() is rejected and its catch handler resets the flag.             *)
WorkerThrows(w) ==
    /\ wk[w].pc # "none"
    /\ Commit(heap, tickCache, req, [wk EXCEPT ![w] = [IdleWorker EXCEPT !.last = "unhandled"]])
    /\ isBackgroundUpdaterRunning' = FALSE
    /\ UNCHANGED <<main, controlLog, arb, probe, clock, chain, multicallProvider, ctorInit,
                   backgroundUpdaterAbortController>>

----------------------------------------------------------------------------
(* A quote request: getBestV3TradeExactIn and the _fetchAllInitializedTicks *)
(* it calls.                                                               *)

PoolOf(rec) == PoolAddress(rec.pair, feeTiersToTry[rec.tier])
SpacingOf(rec) == feeToTickSpacing(feeTiersToTry[rec.tier])

(* TickListDataProvider's validation of the list it is given. *)
TickListValid(ticks, tickSpacing) ==
    LET n == Len(ticks)
        net[k \in 0..n] == IF k = 0 THEN 0 ELSE net[k - 1] + ticks[k].liquidityNet
    IN /\ \A k \in 1..n : ticks[k].index % tickSpacing = 0
       /\ net[n] = 0
       /\ \A k \in 1..(n - 1) : ticks[k].index < ticks[k + 1].index

(* ReturnBest that returns null when no tier produced a trade. *)
ReturnBest_Null(bestTrade) == IF bestTrade # NoTrade THEN "trade" ELSE "null"

(* The end of getBestV3TradeExactIn: return bestTrade, or throw the       *)
(* no-route error.                                                         *)
ReturnBest(bestTrade) == IF bestTrade # NoTrade THEN "trade" ELSE "noRoute"

(* SelectBest that keeps the first trade found. *)
SelectBest_FirstWins(bestTrade, trade) ==
    IF bestTrade = NoTrade THEN trade ELSE bestTrade

(* if (!bestTrade || trade.outputAmount.greaterThan(bestTrade.outputAmount)) *)
(*   bestTrade = trade                                                     *)
SelectBest(bestTrade, trade) ==
    IF bestTrade = NoTrade \/ trade.outputAmount > bestTrade.outputAmount
    THEN trade ELSE bestTrade

(* TierOutcome that rounds every index down to a multiple of the tick      *)
(* spacing before the pool is constructed.                                 *)
TierOutcome_RoundsIndices(totalLiquidity, allInitializedTicks, tickSpacing) ==
    LET rounded == [k \in 1..Len(allInitializedTicks) |->
                      [allInitializedTicks[k] EXCEPT
                          !.index = (@ \div tickSpacing) * tickSpacing]]
    IN IF totalLiquidity = 0 \/ Len(allInitializedTicks) = 0 THEN "skip"
       ELSE IF ~TickListValid(rounded, tickSpacing) THEN "poolSetupError"
       ELSE "pool"

(* TierOutcome without the test of totalLiquidity. *)
TierOutcome_IgnoresLiquidity(totalLiquidity, allInitializedTicks, tickSpacing) ==
    IF Len(allInitializedTicks) = 0 THEN "skip"
    ELSE IF ~TickListValid(allInitializedTicks, tickSpacing) THEN "poolSetupError"
    ELSE "pool"

(* What becomes of a tier once totalLiquidity and the tick list are there: *)
(* it is skipped, the construction of the pool throws, or the pool is      *)
(* built.                                                                  *)
TierOutcome(totalLiquidity, allInitializedTicks, tickSpacing) ==
    IF totalLiquidity = 0 \/ Len(allInitializedTicks) = 0 THEN "skip"
    ELSE IF ~TickListValid(allInitializedTicks, tickSpacing) THEN "poolSetupError"
    ELSE "pool"

(* The for loop over feeTiersToTry from tier number k on, up to its first  *)
(* await (slot0 and liquidity), or the end of the function.                *)
TierFrom(rec, k) ==
    IF k <= Len(feeTiersToTry)
    THEN [rec EXCEPT !.pc = "slot0", !.tier = k, !.liq = 0, !.run = NoRun,
                     !.lookup = NoLookup, !.batch = 0, !.fetch = "none"]
    ELSE [rec EXCEPT !.pc = "done", !.tier = 0, !.liq = 0, !.run = NoRun,
                     !.result = ReturnBest(rec.bestTrade)]

(* CacheHit with the comparison of the age turned round. *)
CacheHit_Inverted(c, pool, t) ==
    /\ c[pool] # NoEntry
    /\ t - c[pool].timestamp > REASONABLE_STALENESS_MS

(* CacheHit without the age test. *)
CacheHit_AnyAge(c, pool, t) == c[pool] # NoEntry

(* The cache lookup at the head of _fetchAllInitializedTicks. *)
CacheHit(c, pool, t) ==
    /\ c[pool] # NoEntry
    /\ t - c[pool].timestamp < REASONABLE_STALENESS_MS

(* What the lookup logs: HIT, STALE or MISS, and the entry's age. *)
LookupLog(c, pool, t) ==
    IF c[pool] = NoEntry THEN [kind |-> "MISS", age |-> 0]
    ELSE [kind |-> IF CacheHit(c, pool, t) THEN "HIT" ELSE "STALE",
          age |-> t - c[pool].timestamp]

(* AfterFetch in which an error of the pool construction leaves the tier   *)
(* loop and ends the request.                                              *)
AfterFetch_ConstructionEscapes(rec, arr, h) ==
    LET allInitializedTicks == IF arr = NoArr THEN <<>> ELSE h[arr]
        outcome == TierOutcome(rec.liq, allInitializedTicks, SpacingOf(rec))
    IN IF outcome = "skip"
       THEN TierFrom([rec EXCEPT !.tierLog = outcome], rec.tier + 1)
       ELSE IF outcome = "poolSetupError"
       THEN [rec EXCEPT !.pc = "done", !.tier = 0, !.liq = 0, !.run = NoRun,
                        !.tierLog = outcome, !.result = "poolSetupError"]
       ELSE [rec EXCEPT !.pc = "trade", !.run = [NoRun EXCEPT !.arr = arr]]

(* The code after _fetchAllInitializedTicks has returned the list held by  *)
(* array arr (NoArr for a fresh empty list): skip the tier, fail in pool   *)
(* construction, or await Trade.fromRoute.                                 *)
AfterFetch(rec, arr, h) ==
    LET allInitializedTicks == IF arr = NoArr THEN <<>> ELSE h[arr]
        outcome == TierOutcome(rec.liq, allInitializedTicks, SpacingOf(rec))
    IN IF outcome = "pool"
       THEN [rec EXCEPT !.pc = "trade", !.run = [NoRun EXCEPT !.arr = arr]]
       ELSE TierFrom([rec EXCEPT !.tierLog = outcome], rec.tier + 1)

(* ReturnEmpty that falls back on the entry in the cache, whatever its age. *)
ReturnEmpty_ServeStale(rec, what) ==
    IF tickCache[PoolOf(rec)] = NoEntry
    THEN [rq |-> AfterFetch([rec EXCEPT !.fetch = what], NoArr, heap),
          heap |-> heap, cache |-> tickCache]
    ELSE [rq |-> AfterFetch([rec EXCEPT !.fetch = what], tickCache[PoolOf(rec)].data, heap),
          heap |-> heap, cache |-> tickCache]

(* ReturnEmpty that throws past the tier loop instead of returning []. *)
ReturnEmpty_Escapes(rec, what) ==
    [rq |-> [rec EXCEPT !.fetch = what, !.pc = "done", !.tier = 0, !.liq = 0,
                        !.run = NoRun, !.result = "fetchFailed"],
     heap |-> heap, cache |-> tickCache]

(* ReturnEmpty that also drops the pool's entry from the cache. *)
ReturnEmpty_Evict(rec, what) ==
    [rq |-> AfterFetch([rec EXCEPT !.fetch = what], NoArr, heap),
     heap |-> heap, cache |-> [tickCache EXCEPT ![PoolOf(rec)] = NoEntry]]

(* return [] in the on-demand fetch, after logging `what`. *)
ReturnEmpty(rec, what) ==
    [rq |-> AfterFetch([rec EXCEPT !.fetch = what], NoArr, heap),
     heap |-> heap, cache |-> tickCache]

(* FetchBitmapCatch that goes on with the bitmaps of the batches that came. *)
FetchBitmapCatch_Partial(r) ==
    LET run == req[r].run
        idx == DecodeBitmaps(WordPositions(SpacingOf(req[r])), run.bitmaps,
                             SpacingOf(req[r]))
    IN IF Len(idx) = 0
       THEN ReturnEmpty(req[r], "bitmapError")
       ELSE [rq |-> [req[r] EXCEPT !.fetch = "bitmapError", !.pc = "ticks", !.batch = 1,
                                   !.run = [run EXCEPT !.i = 0, !.bitmaps = <<>>,
                                                       !.idx = idx]],
             heap |-> heap, cache |-> tickCache]

(* The catch block around the bitmap batches and the decode. *)
FetchBitmapCatch(r) == ReturnEmpty(req[r], "bitmapError")

(* FetchTickCatch that keeps the ticks of the batches that came. *)
FetchTickCatch_Partial(r) ==
    LET run == req[r].run
        part == BuildTicks(run.idx, run.res)
        stored == StoreTicks(heap, tickCache, PoolOf(req[r]), run.arr, part, DateNow)
    IN IF Len(part) = 0
       THEN ReturnEmpty(req[r], "tickDataError")
       ELSE [rq |-> AfterFetch([req[r] EXCEPT !.fetch = "tickDataError"],
                               run.arr, stored.heap),
             heap |-> stored.heap, cache |-> stored.cache]

(* The catch block around the tick-data batches. *)
FetchTickCatch(r) == ReturnEmpty(req[r], "tickDataError")

(* getBestV3TradeExactIn from its call up to its first await. *)
StartRequest(pair, mp) ==
    LET rec == [IdleRequest EXCEPT !.pair = pair]
    IN IF mp THEN TierFrom(rec, 1) ELSE [rec EXCEPT !.pc = "initMc0"]

GetBestStart(r, pair) ==
    /\ req[r].pc = "idle"
    /\ req' = [req EXCEPT ![r] = StartRequest(pair, multicallProvider)]
    /\ UNCHANGED <<main, controlLog, arb, probe, clock, chain, multicallProvider, ctorInit, tickCache,
                   heap, isBackgroundUpdaterRunning, backgroundUpdaterAbortController, wk>>

(* The provider init awaited before the tier loop. *)
GetBestInitDone(r, ok) ==
    /\ req[r].pc = "initMc0"
    /\ multicallProvider' = ok
    /\ req' = [req EXCEPT ![r] =
                 IF ok THEN TierFrom(@, 1)
                 ELSE [@ EXCEPT !.pc = "done", !.result = "initFailed"]]
    /\ UNCHANGED <<main, controlLog, arb, probe, clock, chain, ctorInit, tickCache, heap,
                   isBackgroundUpdaterRunning, backgroundUpdaterAbortController, wk>>

(* slot0() and liquidity() come back; _fetchAllInitializedTicks runs up to *)
(* its first await, or returns the cached list.                            *)
Slot0Done(r, ok) ==
    /\ req[r].pc = "slot0"
    /\ LET pool == PoolOf(req[r])
           rec == [req[r] EXCEPT !.liq = ChainLiquidity(chain[pool], ChainCurrentTick),
                                 !.lookup = LookupLog(tickCache, pool, DateNow)]
           next ==
               IF ~ok THEN TierFrom([req[r] EXCEPT !.tierLog = "poolSetupError"],
                                    req[r].tier + 1)
               ELSE IF CacheHit(tickCache, pool, DateNow)
               THEN AfterFetch(rec, tickCache[pool].data, heap)
               ELSE IF ~multicallProvider
               THEN [rec EXCEPT !.pc = "initMc"]
               ELSE [rec EXCEPT !.pc = "bitmaps", !.batch = 1,
                                !.run = [NoRun EXCEPT !.arr = NewArr(tickCache, req, wk)]]
       IN Commit(heap, tickCache, [req EXCEPT ![r] = next], wk)
    /\ UNCHANGED <<main, controlLog, arb, probe, clock, chain, multicallProvider, ctorInit,
                   isBackgroundUpdaterRunning, backgroundUpdaterAbortController>>

(* await this._initializeMulticallProvider() inside the on-demand fetch. *)
FetchInitDone(r, ok) ==
    /\ req[r].pc = "initMc"
    /\ multicallProvider' = ok
    /\ LET next ==
               IF ok
               THEN [req[r] EXCEPT !.pc = "bitmaps", !.batch = 1,
                                   !.run = [NoRun EXCEPT !.arr = NewArr(tickCache, req, wk)]]
               ELSE ReturnEmpty(req[r], "noProvider").rq
       IN Commit(heap, tickCache, [req EXCEPT ![r] = next], wk)
    /\ UNCHANGED <<main, controlLog, arb, probe, clock, chain, ctorInit,
                   isBackgroundUpdaterRunning, backgroundUpdaterAbortController>>

(* One bitmap batch of the on-demand fetch comes back (or throws). *)
FetchBitmapBatch(r, ok) ==
    /\ req[r].pc = "bitmaps"
    /\ LET pool == PoolOf(req[r])
           tickSpacing == SpacingOf(req[r])
           run == req[r].run
           wordPositionsInternal == WordPositions(tickSpacing)
           allBitmapResultsInternal ==
               Concat(run.bitmaps, BitmapBatch(chain[pool],
                   Slice(wordPositionsInternal, run.i, run.i + BATCH_SIZE), tickSpacing))
           i == run.i + BATCH_SIZE
           tickIndicesToFetchInternal ==
               DecodeBitmaps(wordPositionsInternal, allBitmapResultsInternal, tickSpacing)
           caught == FetchBitmapCatch(r)
           next ==
               IF ~ok
               THEN caught
               ELSE IF MoreBatches(i, Len(wordPositionsInternal))
               THEN IF multicallProvider
                    THEN [caught EXCEPT !.rq =
                            [req[r] EXCEPT !.batch = i \div BATCH_SIZE + 1,
                                           !.run = [run EXCEPT !.i = i,
                                                    !.bitmaps = allBitmapResultsInternal]]]
                    ELSE caught
               ELSE IF Len(tickIndicesToFetchInternal) = 0
               THEN ReturnEmpty(req[r], "noTicks")
               ELSE IF ~multicallProvider
               THEN FetchTickCatch(r)
               ELSE [caught EXCEPT !.rq =
                       [req[r] EXCEPT !.pc = "ticks", !.batch = 1,
                                      !.run = [run EXCEPT !.i = 0, !.bitmaps = <<>>,
                                               !.idx = tickIndicesToFetchInternal]]]
       IN Commit(next.heap, next.cache, [req EXCEPT ![r] = next.rq], wk)
    /\ UNCHANGED <<main, controlLog, arb, probe, clock, chain, multicallProvider, ctorInit,
                   isBackgroundUpdaterRunning, backgroundUpdaterAbortController>>

(* One tick-data batch of the on-demand fetch comes back (or throws). *)
FetchTickBatch(r, ok) ==
    /\ req[r].pc = "ticks"
    /\ LET pool == PoolOf(req[r])
           run == req[r].run
           allTickDataResultsInternal ==
               Concat(run.res, TickDataBatch(chain[pool],
                                             Slice(run.idx, run.i, run.i + BATCH_SIZE)))
           i == run.i + BATCH_SIZE
           allInitializedTicksInternal == BuildTicks(run.idx, allTickDataResultsInternal)
           stored == StoreTicks(heap, tickCache, pool, run.arr,
                                allInitializedTicksInternal, DateNow)
           caught == FetchTickCatch(r)
           next ==
               IF ~ok
               THEN caught
               ELSE IF MoreBatches(i, Len(run.idx))
               THEN IF multicallProvider
                    THEN [caught EXCEPT !.rq =
                            [req[r] EXCEPT !.batch = i \div BATCH_SIZE + 1,
                                           !.run = [run EXCEPT !.i = i,
                                                    !.res = allTickDataResultsInternal]]]
                    ELSE caught
               ELSE IF Len(allInitializedTicksInternal) > 0
               THEN [rq |-> AfterFetch([req[r] EXCEPT !.fetch = "cached"],
                                       run.arr, stored.heap),
                     heap |-> stored.heap, cache |-> stored.cache]
               ELSE ReturnEmpty(req[r], "noTicks")
       IN Commit(next.heap, next.cache, [req EXCEPT ![r] = next.rq], wk)
    /\ UNCHANGED <<main, controlLog, arb, probe, clock, chain, multicallProvider, ctorInit,
                   isBackgroundUpdaterRunning, backgroundUpdaterAbortController>>

(* await Trade.fromRoute(...) ends: a trade with an output amount, or an   *)
(* error that is caught.                                                   *)
TradeDone(r, ok, outputAmount) ==
    /\ req[r].pc = "trade"
    /\ LET trade == [fee |-> feeTiersToTry[req[r].tier], outputAmount |-> outputAmount]
           rec == IF ok
                  THEN [req[r] EXCEPT !.bestTrade = SelectBest(@, trade),
                                      !.tierLog = "trade"]
                  ELSE [req[r] EXCEPT !.tierLog = "tradeError"]
       IN Commit(heap, tickCache, [req EXCEPT ![r] = TierFrom(rec, rec.tier + 1)], wk)
    /\ UNCHANGED <<main, controlLog, arb, probe, clock, chain, multicallProvider, ctorInit,
                   isBackgroundUpdaterRunning, backgroundUpdaterAbortController>>

(* The caller has taken the result; the slot can run another request. *)
RequestReturn(r) ==
    /\ req[r].pc = "done"
    /\ req' = [req EXCEPT ![r] = IdleRequest]
    /\ UNCHANGED <<main, controlLog, arb, probe, clock, chain, multicallProvider, ctorInit, tickCache,
                   heap, isBackgroundUpdaterRunning, backgroundUpdaterAbortController, wk>>

----------------------------------------------------------------------------
(* PriceService.checkArbitrageOpportunity, the caller of the quote         *)
(* requests.  Prices are in millionths of a USDT per USDC, as the amounts  *)
(* are in base units of 6 decimals and the amount traded is 1 USDC; the    *)
(* arithmetic on them is exact.                                            *)

USDC_ARB_MAYA_ASSET == "ARB.USDC-0xaf88d065e77c8cC2239327C5EDb3A432268e5831"
ConfiguredAssets == {USDC_ARB_MAYA_ASSET, "ARB"}

(* config.bot.minProfitThreshold, 1.5 (per cent) unless set otherwise. *)
minProfitThreshold == [num |-> 3, den |-> 2]

(* The pegged price used for the Maya side when the chain is halted: 1.0. *)
PeggedPrice == 1000000

(* expected_amount_out of a Maya quote, in base units. *)
MayaAmounts == {0, 967270, 972180, 982000, 996730, 1001640}

(* CurrencyAmount.toSignificant(digits) read back with parseUnits: the     *)
(* amount cut to its first `digits` significant digits.                    *)
RECURSIVE toSignificant(_, _)
toSignificant(amount, digits) ==
    IF amount < 10 ^ digits THEN amount
    ELSE 10 * toSignificant(amount \div 10, digits)
USDT_DECIMALS == 6

(* ((price1 - price2) / price2) * 100 as a fraction; den = 0 is Infinity. *)
calculatePriceDifference(price1, price2) ==
    IF price2 = 0 THEN [num |-> IF price1 = 0 THEN 0 ELSE 1, den |-> IF price1 = 0 THEN 1 ELSE 0]
    ELSE [num |-> (price1 - price2) * 100, den |-> price2]

Abs(x) == IF x < 0 THEN 0 - x ELSE x

(* AtLeastThreshold with > for >=. *)
AtLeastThreshold_Strict(priceDifferencePercent) ==
    \/ priceDifferencePercent.den = 0
    \/ Abs(priceDifferencePercent.num) * minProfitThreshold.den
          > minProfitThreshold.num * priceDifferencePercent.den

(* Math.abs(priceDifferencePercent) >= config.bot.minProfitThreshold *)
AtLeastThreshold(priceDifferencePercent) ==
    \/ priceDifferencePercent.den = 0
    \/ Abs(priceDifferencePercent.num) * minProfitThreshold.den
          >= minProfitThreshold.num * priceDifferencePercent.den

(* The end of the function, from the test of the two prices on: null when  *)
(* a price is missing or the difference is below the threshold, else the   *)
(* opportunity.  What isChainHalted reported plays no part here.           *)
Decide(mayaUsdcPriceInUsdt, uniswapUsdcPriceInUsdt) ==
    LET priceDifferencePercent ==
            calculatePriceDifference(mayaUsdcPriceInUsdt, uniswapUsdcPriceInUsdt)
    IN IF mayaUsdcPriceInUsdt = 0 \/ uniswapUsdcPriceInUsdt = 0 THEN ReturnNull
       ELSE IF AtLeastThreshold(priceDifferencePercent)
       THEN [kind |-> "opportunity",
             direction |-> IF mayaUsdcPriceInUsdt < uniswapUsdcPriceInUsdt
                           THEN "MAYA_TO_UNISWAP" ELSE "UNISWAP_TO_MAYA",
             priceDifferencePercent |-> priceDifferencePercent]
       ELSE ReturnNull

(* The call, up to the await of getMayaAssetDetails. *)
ArbCall(configuredMayaAssetPair) ==
    IF configuredMayaAssetPair # USDC_ARB_MAYA_ASSET
    THEN [IdleArb EXCEPT !.pc = "done", !.result = ReturnNull]
    ELSE [IdleArb EXCEPT !.pc = "details"]

checkArbitrageOpportunity(configuredMayaAssetPair) ==
    /\ arb.pc = "idle"
    /\ arb' = ArbCall(configuredMayaAssetPair)
    /\ UNCHANGED <<main, controlLog, probe, clock, chain, multicallProvider, ctorInit, tickCache, heap,
                   isBackgroundUpdaterRunning, backgroundUpdaterAbortController, wk, req>>

(* getMayaAssetDetails comes back with the details, with nothing, or       *)
(* throws (the await is outside the try block); then isChainHalted is      *)
(* awaited.                                                                *)
ArbDetailsDone(outcome) ==
    /\ arb.pc = "details"
    /\ arb' = CASE outcome = "details" -> [arb EXCEPT !.pc = "halted"]
               [] outcome = "none" -> [arb EXCEPT !.pc = "done", !.result = ReturnNull]
               [] outcome = "throw" ->
                    [arb EXCEPT !.pc = "done", !.result = [NoResult EXCEPT !.kind = "rejected"]]
    /\ UNCHANGED <<main, controlLog, probe, clock, chain, multicallProvider, ctorInit, tickCache, heap,
                   isBackgroundUpdaterRunning, backgroundUpdaterAbortController, wk, req>>

(* isChainHalted comes back: halted (the Maya price is pegged and the      *)
(* Uniswap quote is asked for), not halted (the Maya quote is asked for),  *)
(* or it throws into the outer catch.                                      *)
ArbHaltedDone(outcome) ==
    /\ arb.pc = "halted"
    /\ CASE outcome = "halted" ->
              /\ arb' = [arb EXCEPT !.pc = "uniswap", !.halted = TRUE,
                                    !.mayaPrice = PeggedPrice]
              /\ req' = [req EXCEPT !["q1"] = StartRequest("USDC/USDT", multicallProvider)]
         [] outcome = "active" ->
              /\ arb' = [arb EXCEPT !.pc = "mayaQuote"]
              /\ UNCHANGED req
         [] outcome = "throw" ->
              /\ arb' = [arb EXCEPT !.pc = "done", !.result = ReturnNull]
              /\ UNCHANGED req
    /\ UNCHANGED <<main, controlLog, probe, clock, chain, multicallProvider, ctorInit, tickCache, heap,
                   isBackgroundUpdaterRunning, backgroundUpdaterAbortController, wk>>

(* mayaService.getSwapQuote comes back with an amount (0 stands for an     *)
(* error or a zero quote) or throws; the price is 0 when there is no       *)
(* quote.  Then the Uniswap quote is asked for.                            *)
ArbMayaQuoteDone(ok, expected_amount_out) ==
    /\ arb.pc = "mayaQuote"
    /\ arb' = [arb EXCEPT !.pc = "uniswap",
                          !.mayaPrice = IF ok THEN expected_amount_out ELSE 0]
    /\ req' = [req EXCEPT !["q1"] = StartRequest("USDC/USDT", multicallProvider)]
    /\ UNCHANGED <<main, controlLog, probe, clock, chain, multicallProvider, ctorInit, tickCache, heap,
                   isBackgroundUpdaterRunning, backgroundUpdaterAbortController, wk>>

(* getBestV3TradeExactIn has returned a trade or thrown; the function runs *)
(* to its end.                                                             *)
ArbUniswapDone ==
    /\ arb.pc = "uniswap"
    /\ req["q1"].pc = "done"
    /\ LET uniswapUsdcPriceInUsdt ==
               IF req["q1"].result = "trade"
               THEN toSignificant(req["q1"].bestTrade.outputAmount, USDT_DECIMALS)
               ELSE 0
       IN arb' = [arb EXCEPT !.pc = "done",
                             !.uniswapPrice = uniswapUsdcPriceInUsdt,
                             !.result = Decide(arb.mayaPrice, uniswapUsdcPriceInUsdt)]
    /\ req' = [req EXCEPT !["q1"] = IdleRequest]
    /\ UNCHANGED <<main, controlLog, probe, clock, chain, multicallProvider, ctorInit, tickCache, heap,
                   isBackgroundUpdaterRunning, backgroundUpdaterAbortController, wk>>

(* The main loop has taken the result and will call again. *)
ArbReturn ==
    /\ arb.pc = "done"
    /\ arb' = IdleArb
    /\ UNCHANGED <<main, controlLog, probe, clock, chain, multicallProvider, ctorInit, tickCache, heap,
                   isBackgroundUpdaterRunning, backgroundUpdaterAbortController, wk, req>>

----------------------------------------------------------------------------
(* main() of index.ts and its SIGINT handler. *)

(* The 100 ms timers of one inter-cycle sleep (sleepTimeMs / 100, scaled   *)
(* down).                                                                  *)
SleepPolls == 2

(* The sleep loop that sleeps to sleepUntil whatever keepRunning is. *)
SleepLoopGoesOn_FullSleep(polls, keepRunning) == polls > 0

(* while (Date.now() < sleepUntil && keepRunning) *)
SleepLoopGoesOn(polls, keepRunning) == polls > 0 /\ keepRunning

(* checkArbitrageOpportunity has returned (or thrown into the catch of the *)
(* cycle): main breaks out of the loop into its finally block, which calls *)
(* stopBackgroundTickUpdater, or starts the inter-cycle sleep.             *)
MainCycleDone ==
    /\ main.pc = "cycle"
    /\ arb.pc = "done"
    /\ arb' = IdleArb
    /\ IF ~main.keepRunning
       THEN /\ main' = [main EXCEPT !.pc = "ended"]
            /\ StopCall
       ELSE /\ main' = [main EXCEPT !.pc = "sleep", !.polls = SleepPolls]
            /\ UNCHANGED <<wk, backgroundUpdaterAbortController, controlLog>>
    /\ UNCHANGED <<probe, clock, chain, multicallProvider, ctorInit, tickCache, heap,
                   isBackgroundUpdaterRunning, req>>

(* A 100 ms timer of the sleep loop fires: the loop goes on, or main       *)
(* breaks out into its finally block, or the next cycle starts with the    *)
(* call of checkArbitrageOpportunity.                                      *)
MainSleepPoll ==
    /\ main.pc = "sleep"
    /\ LET polls == main.polls - 1
       IN IF SleepLoopGoesOn(polls, main.keepRunning)
          THEN /\ main' = [main EXCEPT !.polls = polls]
               /\ UNCHANGED <<arb, wk, backgroundUpdaterAbortController, controlLog>>
          ELSE IF ~main.keepRunning
          THEN /\ main' = [main EXCEPT !.pc = "ended", !.polls = polls]
               /\ StopCall
               /\ UNCHANGED arb
          ELSE /\ main' = [main EXCEPT !.pc = "cycle", !.polls = polls]
               /\ arb' = ArbCall(main.asset)
               /\ UNCHANGED <<wk, backgroundUpdaterAbortController, controlLog>>
    /\ UNCHANGED <<probe, clock, chain, multicallProvider, ctorInit, tickCache, heap,
                   isBackgroundUpdaterRunning, req>>

(* The SIGINT handler: keepRunning = false, stopBackgroundTickUpdater, and *)
(* the timer of process.exit is set.                                       *)
Sigint ==
    /\ main.pc # "none"
    /\ main' = [main EXCEPT !.keepRunning = FALSE, !.exit = "armed"]
    /\ StopCall
    /\ UNCHANGED <<arb, probe, clock, chain, multicallProvider, ctorInit, tickCache, heap,
                   isBackgroundUpdaterRunning, req>>

(* The handler's timer fires: process.exit(0). *)
ExitTimer ==
    /\ main.exit = "armed"
    /\ main' = [main EXCEPT !.exit = "exited"]
    /\ UNCHANGED <<controlLog, arb, probe, clock, chain, multicallProvider, ctorInit,
                   tickCache, heap, isBackgroundUpdaterRunning,
                   backgroundUpdaterAbortController, wk, req>>

----------------------------------------------------------------------------
Next ==
    \/ Tick
    \/ \E p \in Pools, pos \in Burnable : ChainChange(p, pos)
    \/ \E ok \in BOOLEAN : CtorInitDone(ok)
    \/ startBackgroundTickUpdater
    \/ stopBackgroundTickUpdater
    \/ \E w \in WorkerIds, ok \in BOOLEAN : RefreshInitDone(w, ok)
    \/ \E w \in WorkerIds, ok \in BOOLEAN : RefreshBitmapBatch(w, ok)
    \/ \E w \in WorkerIds, ok \in BOOLEAN : RefreshTickBatch(w, ok)
    \/ \E w \in WorkerIds : WorkerWaitDone(w)
    \/ \E r \in SequentialRequests, pair \in Pairs : GetBestStart(r, pair)
    \/ \E r \in SequentialRequests, ok \in BOOLEAN : GetBestInitDone(r, ok)
    \/ \E r \in SequentialRequests, ok \in BOOLEAN : Slot0Done(r, ok)
    \/ \E r \in SequentialRequests, ok \in BOOLEAN : FetchInitDone(r, ok)
    \/ \E r \in SequentialRequests, ok \in BOOLEAN : FetchBitmapBatch(r, ok)
    \/ \E r \in SequentialRequests, ok \in BOOLEAN : FetchTickBatch(r, ok)
    \/ \E r \in SequentialRequests, ok \in BOOLEAN, out \in OutputAmounts :
          TradeDone(r, ok, out)
    \/ \E r \in SequentialRequests : RequestReturn(r)

Spec == Init /\ [][Next]_vars

(* Overlapping callers: two quote requests and the worker's first cycle,   *)
(* from the state in which the constructor's provider init has succeeded,  *)
(* at one instant of the clock.                                            *)
InitOverlap ==
    /\ clock = 0
    /\ chain = InitialChain
    /\ multicallProvider = TRUE
    /\ ctorInit = "done"
    /\ tickCache = [p \in Pools |-> NoEntry]
    /\ heap = [a \in ArrIds |-> <<>>]
    /\ isBackgroundUpdaterRunning = FALSE
    /\ backgroundUpdaterAbortController = NoWorker
    /\ wk = [w \in WorkerIds |-> IdleWorker]
    /\ req = [r \in Requests |-> IdleRequest]
    /\ arb = IdleArb
    /\ controlLog = "none"
    /\ main = NoMain
    /\ probe = NoProbe

NextOverlap ==
    \/ \E p \in Pools, pos \in Burnable : ChainChange(p, pos)
    \/ startBackgroundTickUpdater
    \/ \E w \in WorkerIds, ok \in BOOLEAN : RefreshBitmapBatch(w, ok)
    \/ \E w \in WorkerIds, ok \in BOOLEAN : RefreshTickBatch(w, ok)
    \/ \E r \in Requests, pair \in Pairs : GetBestStart(r, pair)
    \/ \E r \in Requests, ok \in BOOLEAN : Slot0Done(r, ok)
    \/ \E r \in Requests, ok \in BOOLEAN : FetchBitmapBatch(r, ok)
    \/ \E r \in Requests, ok \in BOOLEAN : FetchTickBatch(r, ok)
    \/ \E r \in Requests, ok \in BOOLEAN, out \in OutputAmounts :
          TradeDone(r, ok, out)
    \/ \E r \in Requests : RequestReturn(r)

SpecOverlap == InitOverlap /\ [][NextOverlap]_vars

(* An unchanging chain: the pools hold any one set of the positions from   *)
(* the start, the provider is ready, and the worker, the clock and one     *)
(* quote request at a time run as in Spec.                                 *)
InitSteady ==
    /\ clock = 0
    /\ chain \in { [p \in Pools |-> ps] : ps \in SUBSET Positions }
    /\ multicallProvider = TRUE
    /\ ctorInit = "done"
    /\ tickCache = [p \in Pools |-> NoEntry]
    /\ heap = [a \in ArrIds |-> <<>>]
    /\ isBackgroundUpdaterRunning = FALSE
    /\ backgroundUpdaterAbortController = NoWorker
    /\ wk = [w \in WorkerIds |-> IdleWorker]
    /\ req = [r \in Requests |-> IdleRequest]
    /\ arb = IdleArb
    /\ controlLog = "none"
    /\ main = NoMain
    /\ probe = NoProbe

NextSteady ==
    \/ Tick
    \/ startBackgroundTickUpdater
    \/ stopBackgroundTickUpdater
    \/ \E w \in WorkerIds, ok \in BOOLEAN : RefreshBitmapBatch(w, ok)
    \/ \E w \in WorkerIds, ok \in BOOLEAN : RefreshTickBatch(w, ok)
    \/ \E w \in WorkerIds : WorkerWaitDone(w)
    \/ \E r \in SequentialRequests, pair \in Pairs : GetBestStart(r, pair)
    \/ \E r \in SequentialRequests, ok \in BOOLEAN : Slot0Done(r, ok)
    \/ \E r \in SequentialRequests, ok \in BOOLEAN : FetchBitmapBatch(r, ok)
    \/ \E r \in SequentialRequests, ok \in BOOLEAN : FetchTickBatch(r, ok)
    \/ \E r \in SequentialRequests, ok \in BOOLEAN, out \in OutputAmounts :
          TradeDone(r, ok, out)
    \/ \E r \in SequentialRequests : RequestReturn(r)

SpecSteady == InitSteady /\ [][NextSteady]_vars

(* The background updater alone on an unchanging chain: no quote request   *)
(* runs, so every cache entry is the work of a refresh.                    *)
NextRefresh ==
    \/ Tick
    \/ startBackgroundTickUpdater
    \/ stopBackgroundTickUpdater
    \/ \E w \in WorkerIds, ok \in BOOLEAN : RefreshBitmapBatch(w, ok)
    \/ \E w \in WorkerIds, ok \in BOOLEAN : RefreshTickBatch(w, ok)
    \/ \E w \in WorkerIds : WorkerWaitDone(w)

SpecRefresh == InitSteady /\ [][NextRefresh]_vars

(* The background updater under its callers' start and stop calls, with    *)
(* the provider ready.  Every awaited chain read comes back (or fails),    *)
(* time passes, and a timer whose time has come fires; the calls of start  *)
(* and stop are up to the caller.                                          *)
NextRestart ==
    \/ Tick
    \/ startBackgroundTickUpdater
    \/ StartWhileRunning
    \/ stopBackgroundTickUpdater
    \/ \E w \in WorkerIds, ok \in BOOLEAN : RefreshBitmapBatch(w, ok)
    \/ \E w \in WorkerIds, ok \in BOOLEAN : RefreshTickBatch(w, ok)
    \/ \E w \in WorkerIds : WorkerWaitDone(w)

UpdaterFairness ==
    /\ WF_vars(Tick)
    /\ \A w \in WorkerIds :
         /\ WF_vars(\E ok \in BOOLEAN : RefreshBitmapBatch(w, ok))
         /\ WF_vars(\E ok \in BOOLEAN : RefreshTickBatch(w, ok))
         /\ WF_vars(WorkerWaitDone(w))

SpecRestart == InitOverlap /\ [][NextRestart]_vars /\ UpdaterFairness

(* The same, and a worker can end through an error at any of its awaits. *)
NextUpdater ==
    \/ NextRestart
    \/ \E w \in WorkerIds : WorkerThrows(w)

SpecUpdater == InitOverlap /\ [][NextUpdater]_vars /\ UpdaterFairness

(* Two pools: quote requests for either pair, one at a time, next to the   *)
(* worker that refreshes the background pool, on a chain that does not     *)
(* change and where both pools hold every position.                        *)
InitPools ==
    /\ clock = 0
    /\ chain = [p \in Pools |-> Positions]
    /\ multicallProvider = TRUE
    /\ ctorInit = "done"
    /\ tickCache = [p \in Pools |-> NoEntry]
    /\ heap = [a \in ArrIds |-> <<>>]
    /\ isBackgroundUpdaterRunning = FALSE
    /\ backgroundUpdaterAbortController = NoWorker
    /\ wk = [w \in WorkerIds |-> IdleWorker]
    /\ req = [r \in Requests |-> IdleRequest]
    /\ arb = IdleArb
    /\ controlLog = "none"
    /\ main = NoMain
    /\ probe = NoProbe

NextPools ==
    \/ Tick
    \/ startBackgroundTickUpdater
    \/ \E w \in WorkerIds, ok \in BOOLEAN : RefreshBitmapBatch(w, ok)
    \/ \E w \in WorkerIds, ok \in BOOLEAN : RefreshTickBatch(w, ok)
    \/ \E w \in WorkerIds : WorkerWaitDone(w)
    \/ \E r \in SequentialRequests, pair \in AllPairs : GetBestStart(r, pair)
    \/ \E r \in SequentialRequests, ok \in BOOLEAN : Slot0Done(r, ok)
    \/ \E r \in SequentialRequests, ok \in BOOLEAN : FetchBitmapBatch(r, ok)
    \/ \E r \in SequentialRequests, ok \in BOOLEAN : FetchTickBatch(r, ok)
    \/ \E r \in SequentialRequests, ok \in BOOLEAN, out \in OutputAmounts :
          TradeDone(r, ok, out)
    \/ \E r \in SequentialRequests : RequestReturn(r)

SpecPools == InitPools /\ [][NextPools]_vars

(* The program: main has built the services, started the updater and      *)
(* called checkArbitrageOpportunity for the first cycle; the provider is   *)
(* ready.  A SIGINT can come at any time, and nothing runs once the        *)
(* process has exited.                                                     *)
InitMain ==
    /\ clock = 0
    /\ chain = InitialChain
    /\ multicallProvider = TRUE
    /\ ctorInit = "done"
    /\ tickCache = [p \in Pools |-> NoEntry]
    /\ heap = [a \in ArrIds |-> <<>>]
    /\ isBackgroundUpdaterRunning = TRUE
    /\ backgroundUpdaterAbortController = 1
    /\ wk = [w \in WorkerIds |->
               IF w = 1 THEN WorkerLoopTop(IdleWorker, TRUE, ClockInstant(0)) ELSE IdleWorker]
    /\ req = [r \in Requests |-> IdleRequest]
    /\ controlLog = "starting"
    /\ probe = NoProbe
    /\ \E asset \in ConfiguredAssets :
         /\ arb = ArbCall(asset)
         /\ main = [NoMain EXCEPT !.pc = "cycle", !.asset = asset]

(* The process has not exited. *)
ProcessAlive == main.exit # "exited"

NextMain ==
    \/ ProcessAlive /\ Tick
    \/ \E w \in WorkerIds, ok \in BOOLEAN : ProcessAlive /\ RefreshBitmapBatch(w, ok)
    \/ \E w \in WorkerIds, ok \in BOOLEAN : ProcessAlive /\ RefreshTickBatch(w, ok)
    \/ \E w \in WorkerIds : ProcessAlive /\ WorkerWaitDone(w)
    \/ \E outcome \in {"details", "none", "throw"} : ProcessAlive /\ ArbDetailsDone(outcome)
    \/ \E outcome \in {"halted", "active", "throw"} : ProcessAlive /\ ArbHaltedDone(outcome)
    \/ \E ok \in BOOLEAN : ProcessAlive /\ ArbMayaQuoteDone(ok, PeggedPrice)
    \/ ProcessAlive /\ ArbUniswapDone
    \/ \E ok \in BOOLEAN : ProcessAlive /\ Slot0Done("q1", ok)
    \/ \E ok \in BOOLEAN : ProcessAlive /\ FetchBitmapBatch("q1", ok)
    \/ \E ok \in BOOLEAN : ProcessAlive /\ FetchTickBatch("q1", ok)
    \/ \E ok \in BOOLEAN, out \in OutputAmounts : ProcessAlive /\ TradeDone("q1", ok, out)
    \/ ProcessAlive /\ MainCycleDone
    \/ ProcessAlive /\ MainSleepPoll
    \/ ProcessAlive /\ Sigint
    \/ ProcessAlive /\ ExitTimer

SpecMain == InitMain /\ [][NextMain]_vars

(* Quote requests alone, on a chain that does not change and that holds    *)
(* any one set of positions, among them one that is out of range at the    *)
(* current tick: the pool then has initialized ticks and no liquidity in   *)
(* range.                                                                  *)
OutOfRangePosition == [lo |-> 1, hi |-> 3, L |-> 1]

InitQuote ==
    /\ clock = 0
    /\ chain \in { [p \in Pools |-> ps] : ps \in SUBSET (Positions \cup {OutOfRangePosition}) }
    /\ multicallProvider = TRUE
    /\ ctorInit = "done"
    /\ tickCache = [p \in Pools |-> NoEntry]
    /\ heap = [a \in ArrIds |-> <<>>]
    /\ isBackgroundUpdaterRunning = FALSE
    /\ backgroundUpdaterAbortController = NoWorker
    /\ wk = [w \in WorkerIds |-> IdleWorker]
    /\ req = [r \in Requests |-> IdleRequest]
    /\ arb = IdleArb
    /\ controlLog = "none"
    /\ main = NoMain
    /\ probe = NoProbe

NextQuote ==
    \/ Tick
    \/ \E r \in SequentialRequests, pair \in Pairs : GetBestStart(r, pair)
    \/ \E r \in SequentialRequests, ok \in BOOLEAN : Slot0Done(r, ok)
    \/ \E r \in SequentialRequests, ok \in BOOLEAN : FetchBitmapBatch(r, ok)
    \/ \E r \in SequentialRequests, ok \in BOOLEAN : FetchTickBatch(r, ok)
    \/ \E r \in SequentialRequests, ok \in BOOLEAN, out \in OutputAmounts :
          TradeDone(r, ok, out)
    \/ \E r \in SequentialRequests : RequestReturn(r)

SpecQuote == InitQuote /\ [][NextQuote]_vars

(* The price service and the quote request it makes, with the provider    *)
(* ready and no background worker.                                         *)
InitPrice ==
    /\ clock = 0
    /\ chain = InitialChain
    /\ multicallProvider = TRUE
    /\ ctorInit = "done"
    /\ tickCache = [p \in Pools |-> NoEntry]
    /\ heap = [a \in ArrIds |-> <<>>]
    /\ isBackgroundUpdaterRunning = FALSE
    /\ backgroundUpdaterAbortController = NoWorker
    /\ wk = [w \in WorkerIds |-> IdleWorker]
    /\ req = [r \in Requests |-> IdleRequest]
    /\ arb = IdleArb
    /\ controlLog = "none"
    /\ main = NoMain
    /\ probe = NoProbe

NextPrice ==
    \/ \E asset \in ConfiguredAssets : checkArbitrageOpportunity(asset)
    \/ \E outcome \in {"details", "none", "throw"} : ArbDetailsDone(outcome)
    \/ \E outcome \in {"halted", "active", "throw"} : ArbHaltedDone(outcome)
    \/ \E ok \in BOOLEAN, amount \in MayaAmounts : ArbMayaQuoteDone(ok, amount)
    \/ ArbUniswapDone
    \/ ArbReturn
    \/ \E ok \in BOOLEAN : Slot0Done("q1", ok)
    \/ \E ok \in BOOLEAN : FetchBitmapBatch("q1", ok)
    \/ \E ok \in BOOLEAN : FetchTickBatch("q1", ok)
    \/ \E ok \in BOOLEAN, out \in OutputAmounts : TradeDone("q1", ok, out)

SpecPrice == InitPrice /\ [][NextPrice]_vars

(* The scan as a function: it is run on a synthetic bitmap content of at   *)
(* most MaxBits set bits, for each tick spacing, a word at a time, as a    *)
(* whole, and with the optimizer's batch sizes.                            *)
ProbeBatchSizes == 1..(BATCH_SIZE + 1)

InitScan ==
    /\ clock = 0
    /\ chain = InitialChain
    /\ multicallProvider = FALSE
    /\ ctorInit = "pending"
    /\ tickCache = [p \in Pools |-> NoEntry]
    /\ heap = [a \in ArrIds |-> <<>>]
    /\ isBackgroundUpdaterRunning = FALSE
    /\ backgroundUpdaterAbortController = NoWorker
    /\ wk = [w \in WorkerIds |-> IdleWorker]
    /\ req = [r \in Requests |-> IdleRequest]
    /\ arb = IdleArb
    /\ controlLog = "none"
    /\ main = NoMain
    /\ \E tickSpacing \in TickSpacings :
         \E bits \in SetsUpTo(ScannedPositions(tickSpacing), MaxBits) :
            probe = [NoProbe EXCEPT !.stage = "input", !.tickSpacing = tickSpacing,
                                    !.bits = bits]

(* The bit loop on the bitmap of one word. *)
ProbeDecodeWord(word) ==
    /\ probe.stage = "input"
    /\ LET ps == InitializedAt(probe.bits, probe.tickSpacing)
       IN probe' = [probe EXCEPT
                      !.stage = "word", !.word = word,
                      !.out = DecodeWord(ChainTickBitmap(ps, word, probe.tickSpacing),
                                         word, probe.tickSpacing, 0)]
    /\ UNCHANGED <<main, controlLog, arb, clock, chain, multicallProvider, ctorInit, tickCache, heap,
                   isBackgroundUpdaterRunning, backgroundUpdaterAbortController, wk, req>>

(* The whole scan, in the variant that sorts and in the one that does not. *)
ProbeScan ==
    /\ probe.stage = "input"
    /\ LET ps == InitializedAt(probe.bits, probe.tickSpacing)
       IN probe' = [probe EXCEPT
                      !.stage = "scanned",
                      !.sorted = ScanSorted(ps, probe.tickSpacing),
                      !.unsorted = ScanUnsorted(ps, probe.tickSpacing)]
    /\ UNCHANGED <<main, controlLog, arb, clock, chain, multicallProvider, ctorInit, tickCache, heap,
                   isBackgroundUpdaterRunning, backgroundUpdaterAbortController, wk, req>>

(* The optimizer times the scan with one batch size, then with another. *)
ProbeTimeBitmaps(batchSize) ==
    /\ probe.stage \in {"input", "timed"}
    /\ LET ps == InitializedAt(probe.bits, probe.tickSpacing)
           tickIndices == timeBitmapFetching(ps, probe.tickSpacing, batchSize)
       IN probe' = IF probe.stage = "input"
                   THEN [probe EXCEPT !.stage = "timed", !.batchSize = batchSize,
                                      !.out = tickIndices]
                   ELSE [probe EXCEPT !.stage = "retimed", !.batchSize2 = batchSize,
                                      !.out2 = tickIndices]
    /\ UNCHANGED <<main, controlLog, arb, clock, chain, multicallProvider, ctorInit, tickCache, heap,
                   isBackgroundUpdaterRunning, backgroundUpdaterAbortController, wk, req>>

NextScan ==
    \/ \E word \in { WordPositions(probe.tickSpacing)[k] :
                       k \in 1..Len(WordPositions(probe.tickSpacing)) } :
          ProbeDecodeWord(word)
    \/ ProbeScan
    \/ \E batchSize \in ProbeBatchSizes : ProbeTimeBitmaps(batchSize)

SpecScan == InitScan /\ [][NextScan]_vars

(* The tier loop as a function of its list: it is run over a list of up to *)
(* MaxTiers fee tiers, each with the outcome its evaluation has (the tier  *)
(* is skipped, the pool setup throws, the trade construction throws, or a  *)
(* trade with an output amount is found).                                  *)
ProbeFees == <<"LOWEST", "LOW", "MEDIUM", "HIGH">>
TierResults ==
    { [kind |-> k, outputAmount |-> 0] : k \in {"skip", "poolSetupError", "tradeError"} }
      \cup { [kind |-> "trade", outputAmount |-> a] : a \in OutputAmounts }

InitSelect ==
    /\ clock = 0
    /\ chain = InitialChain
    /\ multicallProvider = FALSE
    /\ ctorInit = "pending"
    /\ tickCache = [p \in Pools |-> NoEntry]
    /\ heap = [a \in ArrIds |-> <<>>]
    /\ isBackgroundUpdaterRunning = FALSE
    /\ backgroundUpdaterAbortController = NoWorker
    /\ wk = [w \in WorkerIds |-> IdleWorker]
    /\ req = [r \in Requests |-> IdleRequest]
    /\ arb = IdleArb
    /\ controlLog = "none"
    /\ main = NoMain
    /\ \E n \in 1..MaxTiers :
         \E tiers \in [1..n -> TierResults] :
            probe = [NoProbe EXCEPT !.stage = "tiers", !.tiers = tiers]

(* One pass of the loop body: the tier's trade goes through the selection, *)
(* every other outcome leaves bestTrade as it is.                          *)
ProbeTier ==
    /\ probe.stage = "tiers"
    /\ probe.k < Len(probe.tiers)
    /\ LET k == probe.k + 1
           trade == [fee |-> ProbeFees[k], outputAmount |-> probe.tiers[k].outputAmount]
       IN probe' = [probe EXCEPT
                      !.k = k,
                      !.bestTrade = IF probe.tiers[k].kind = "trade"
                                    THEN SelectBest(@, trade) ELSE @]
    /\ UNCHANGED <<main, controlLog, arb, clock, chain, multicallProvider, ctorInit, tickCache, heap,
                   isBackgroundUpdaterRunning, backgroundUpdaterAbortController, wk, req>>

(* After the loop: return bestTrade or throw. *)
ProbeReturn ==
    /\ probe.stage = "tiers"
    /\ probe.k = Len(probe.tiers)
    /\ probe' = [probe EXCEPT !.stage = "returned", !.result = ReturnBest(probe.bestTrade)]
    /\ UNCHANGED <<main, controlLog, arb, clock, chain, multicallProvider, ctorInit, tickCache, heap,
                   isBackgroundUpdaterRunning, backgroundUpdaterAbortController, wk, req>>

(* The step from the fetched list to the pool as a function: it is run on  *)
(* a tick list over any at most MaxBits indices of the tick range, aligned *)
(* to the tier's tick spacing or not, sorted and with liquidityNet summing *)
(* to zero, and on a total liquidity that is zero or not.                  *)
RECURSIVE IndexList(_)
IndexList(S) ==
    IF S = {} THEN <<>>
    ELSE LET m == CHOOSE x \in S : \A y \in S : x <= y
         IN <<m>> \o IndexList(S \ {m})

SyntheticTicks(S) ==
    LET idx == IndexList(S)
        n == Len(idx)
    IN BuildTicks(idx,
          [k \in 1..n |->
              [call |-> idx[k], liquidityGross |-> 1,
               liquidityNet |-> IF n = 1 THEN 0
                                ELSE IF k = 1 THEN 1 ELSE IF k = n THEN 0 - 1 ELSE 0]])

InitBuild ==
    /\ clock = 0
    /\ chain = InitialChain
    /\ multicallProvider = FALSE
    /\ ctorInit = "pending"
    /\ tickCache = [p \in Pools |-> NoEntry]
    /\ heap = [a \in ArrIds |-> <<>>]
    /\ isBackgroundUpdaterRunning = FALSE
    /\ backgroundUpdaterAbortController = NoWorker
    /\ wk = [w \in WorkerIds |-> IdleWorker]
    /\ req = [r \in Requests |-> IdleRequest]
    /\ arb = IdleArb
    /\ controlLog = "none"
    /\ main = NoMain
    /\ \E tickSpacing \in TickSpacings, totalLiquidity \in {0, 1} :
         \E S \in SetsUpTo(MIN_TICK..MAX_TICK, MaxBits) :
            probe = [NoProbe EXCEPT !.stage = "list", !.tickSpacing = tickSpacing,
                                    !.totalLiquidity = totalLiquidity,
                                    !.ticks = SyntheticTicks(S)]

(* The skip test and the construction of the pool on the list. *)
ProbeConstruct ==
    /\ probe.stage = "list"
    /\ probe' = [probe EXCEPT
                   !.stage = "built",
                   !.outcome = TierOutcome(probe.totalLiquidity, probe.ticks,
                                           probe.tickSpacing)]
    /\ UNCHANGED <<main, controlLog, arb, clock, chain, multicallProvider, ctorInit, tickCache, heap,
                   isBackgroundUpdaterRunning, backgroundUpdaterAbortController, wk, req>>

NextBuild == ProbeConstruct

SpecBuild == InitBuild /\ [][NextBuild]_vars

(* _tickToWord as a function of any tick and any positive tick spacing. *)
InitWord ==
    /\ clock = 0
    /\ chain = InitialChain
    /\ multicallProvider = FALSE
    /\ ctorInit = "pending"
    /\ tickCache = [p \in Pools |-> NoEntry]
    /\ heap = [a \in ArrIds |-> <<>>]
    /\ isBackgroundUpdaterRunning = FALSE
    /\ backgroundUpdaterAbortController = NoWorker
    /\ wk = [w \in WorkerIds |-> IdleWorker]
    /\ req = [r \in Requests |-> IdleRequest]
    /\ arb = IdleArb
    /\ controlLog = "none"
    /\ main = NoMain
    /\ \E tick \in (0 - MaxProbeTick)..MaxProbeTick, tickSpacing \in 1..MaxProbeSpacing :
         probe = [NoProbe EXCEPT !.stage = "tick", !.tick = tick,
                                 !.tickSpacing = tickSpacing]

ProbeTickToWord ==
    /\ probe.stage = "tick"
    /\ probe' = [probe EXCEPT !.stage = "worded",
                              !.word = _tickToWord(probe.tick, probe.tickSpacing)]
    /\ UNCHANGED <<main, controlLog, arb, clock, chain, multicallProvider, ctorInit, tickCache, heap,
                   isBackgroundUpdaterRunning, backgroundUpdaterAbortController, wk, req>>

NextWord == ProbeTickToWord

SpecWord == InitWord /\ [][NextWord]_vars

(* The scan over the whole tick range: it is run, for a tick spacing that  *)
(* divides the range or does not, on a chain where at most MaxBits of the  *)
(* ticks of [MIN_TICK, MAX_TICK] that are multiples of the spacing are     *)
(* initialized.  bits holds their compressed positions tick / tickSpacing. *)
AlignedPositions(tickSpacing) ==
    { c \in MIN_TICK..MAX_TICK :
        c * tickSpacing >= MIN_TICK /\ c * tickSpacing <= MAX_TICK }

InitCover ==
    /\ clock = 0
    /\ chain = InitialChain
    /\ multicallProvider = FALSE
    /\ ctorInit = "pending"
    /\ tickCache = [p \in Pools |-> NoEntry]
    /\ heap = [a \in ArrIds |-> <<>>]
    /\ isBackgroundUpdaterRunning = FALSE
    /\ backgroundUpdaterAbortController = NoWorker
    /\ wk = [w \in WorkerIds |-> IdleWorker]
    /\ req = [r \in Requests |-> IdleRequest]
    /\ arb = IdleArb
    /\ controlLog = "none"
    /\ main = NoMain
    /\ \E tickSpacing \in 1..MaxProbeSpacing :
         \E bits \in SetsUpTo(AlignedPositions(tickSpacing), MaxBits) :
            probe = [NoProbe EXCEPT !.stage = "input", !.tickSpacing = tickSpacing,
                                    !.bits = bits]

NextCover == ProbeScan

SpecCover == InitCover /\ [][NextCover]_vars

NextSelect ==
    \/ ProbeTier
    \/ ProbeReturn

SpecSelect == InitSelect /\ [][NextSelect]_vars

----------------------------------------------------------------------------
(* The staleness gate and the tick list a quote is computed from. *)

(* C1: the cache lookup of a quote request hands back the cached tick list *)
(* only when the entry's age, now - timestamp, is strictly below twice the *)
(* background refresh interval; when there is no entry or its age is at or *)
(* above that threshold, the request goes into the on-demand pipeline      *)
(* instead, and a fresh entry never starts a pipeline.                     *)
StalenessGate ==
    [][\A r \in Requests :
         (req[r].pc = "slot0" /\ req'[r] # req[r]) =>
            LET entry == tickCache[PoolOf(req[r])]
                age == DateNow - entry.timestamp
                threshold == 2 * DEFAULT_BACKGROUND_UPDATE_INTERVAL_MS
                looked == req'[r].lookup # NoLookup
            IN /\ req'[r].pc = "trade" =>
                    /\ entry # NoEntry
                    /\ age < threshold
                    /\ req'[r].run.arr = entry.data
               /\ (looked /\ (entry = NoEntry \/ age >= threshold)) =>
                    req'[r].pc \in {"initMc", "bitmaps"}
               /\ (looked /\ entry # NoEntry /\ age < threshold) =>
                    req'[r].pc \notin {"initMc", "bitmaps", "ticks"}]_vars

(* A request found an entry aged 150 s and is in the on-demand scan. *)
StaleEntryRefetched ==
    \E r \in Requests :
        /\ req[r].pc = "bitmaps"
        /\ req[r].lookup = [kind |-> "STALE", age |-> 150000]

(* C2: the tick list a request takes into pool construction and the swap   *)
(* simulation is either the list of a cache entry whose age was below the  *)
(* threshold at the lookup, or the complete list of the pipeline run the    *)
(* request itself has just finished; and when the lookup found a stale     *)
(* entry and the on-demand fetch fails or finds nothing, the tier is left   *)
(* with no pool built and no trade taken.                                  *)
FreshOrOwnTickList ==
    [][\A r \in Requests :
         /\ (req'[r].pc = "trade" /\ req[r].pc # "trade") =>
              LET entry == tickCache[PoolOf(req'[r])]
                  arr == req'[r].run.arr
              IN \/ /\ req[r].pc = "slot0"
                    /\ entry # NoEntry
                    /\ DateNow - entry.timestamp < 2 * DEFAULT_BACKGROUND_UPDATE_INTERVAL_MS
                    /\ arr = entry.data
                    /\ heap'[arr] = heap[arr]
                 \/ /\ req[r].pc = "ticks"
                    /\ req'[r].fetch = "cached"
                    /\ arr = req[r].run.arr
                    /\ Len(heap'[arr]) = Len(req[r].run.idx)
         /\ (/\ req[r].pc \in {"initMc", "bitmaps", "ticks"}
             /\ req[r].lookup.kind = "STALE"
             /\ req'[r].fetch \in {"noProvider", "bitmapError", "tickDataError", "noTicks"}) =>
              /\ req'[r].pc \in {"slot0", "done"}
              /\ req'[r].run = NoRun
              /\ req'[r].bestTrade = req[r].bestTrade]_vars

(* A request found a stale entry, its on-demand fetch failed, and it ended *)
(* without a route while the entry is still in the cache.                  *)
StaleEntryNotServedOnFailure ==
    \E r \in Requests :
        /\ req[r].pc = "done"
        /\ req[r].lookup.kind = "STALE"
        /\ req[r].fetch \in {"noProvider", "bitmapError", "tickDataError"}
        /\ req[r].result = "noRoute"
        /\ tickCache[PoolAddress(req[r].pair, feeTiersToTry[Len(feeTiersToTry)])] # NoEntry

(* C3: a tick list that is in the cache or in the hands of a request that   *)
(* is computing a trade never changes while it stays there, and a cache     *)
(* write puts a new array, complete, in the entry: a reader holds the      *)
(* whole previous list or the whole new one.                               *)
NoTornTickList ==
    [][LET held == { req[r].run.arr : r \in { x \in Requests : req[x].pc = "trade" } }
           heldAfter ==
               { req'[r].run.arr : r \in { x \in Requests : req'[x].pc = "trade" } }
           published == ({ tickCache[p].data : p \in Pools } \cup held) \ {NoArr}
           publishedAfter ==
               ({ tickCache'[p].data : p \in Pools } \cup heldAfter) \ {NoArr}
       IN /\ \A a \in published \cap publishedAfter : heap'[a] = heap[a]
          /\ \A p \in Pools :
               tickCache'[p] # tickCache[p] =>
                  /\ tickCache'[p].data \notin published
                  /\ \E n \in { Len(req[r].run.idx) : r \in Requests }
                             \cup { Len(wk[w].run.idx) : w \in WorkerIds } :
                        n > 0 /\ Len(heap'[tickCache'[p].data]) = n]_vars

(* A request that took the list the background refresh had cached is      *)
(* computing its trade on it while a second request, whose on-demand fetch *)
(* overlapped, has replaced the entry with its own, different list.        *)
ReaderHoldsPreviousList ==
    \E r \in Requests, other \in Requests :
        /\ r # other
        /\ req[r].pc = "trade"
        /\ req[r].lookup.kind = "HIT"
        /\ \E w \in WorkerIds : wk[w].last = "cached"
        /\ req[other].pc = "trade"
        /\ req[other].fetch = "cached"
        /\ tickCache[PoolOf(req[r])].data = req[other].run.arr
        /\ req[other].run.arr # req[r].run.arr
        /\ heap[req[other].run.arr] # heap[req[r].run.arr]
        /\ Len(heap[req[r].run.arr]) > 0

----------------------------------------------------------------------------
(* Who writes the cache, and how many workers there are. *)

(* C4: tick-cache entries are created or replaced only by a pipeline run   *)
(* that has just completed, the background refresh of a worker or the      *)
(* on-demand fetch of a quote request, for the pool it fetched, with the   *)
(* run's own complete, non-empty list and the current time; nothing else   *)
(* changes the cache.                                                      *)
OnlyCompletedRunsWrite ==
    [][\A p \in Pools :
         tickCache'[p] # tickCache[p] =>
            /\ tickCache'[p] # NoEntry
            /\ tickCache'[p].timestamp = DateNow
            /\ Len(heap'[tickCache'[p].data]) > 0
            /\ \/ \E w \in WorkerIds :
                    /\ wk[w].pc = "ticks"
                    /\ poolsToUpdateInBackground[wk[w].k].address = p
                    /\ tickCache'[p].data = wk[w].run.arr
                    /\ Len(heap'[tickCache'[p].data]) = Len(wk[w].run.idx)
                    /\ req' = req
               \/ \E r \in Requests :
                    /\ req[r].pc = "ticks"
                    /\ PoolOf(req[r]) = p
                    /\ req'[r].fetch = "cached"
                    /\ tickCache'[p].data = req[r].run.arr
                    /\ Len(heap'[tickCache'[p].data]) = Len(req[r].run.idx)
                    /\ wk' = wk]_vars

(* C4 as stated: every creation or replacement of a cache entry is a step  *)
(* of the background refresh task, and no quote request writes the cache.  *)
BackgroundSoleWriter ==
    [][tickCache' # tickCache =>
          /\ req' = req
          /\ \E w \in WorkerIds : wk[w].pc = "ticks" /\ wk'[w] # wk[w]]_vars

(* A quote request has written the entry of its pool: the cache holds the  *)
(* array its on-demand fetch built.                                        *)
OnDemandFetchCached ==
    \E r \in Requests :
        /\ req[r].pc = "trade"
        /\ req[r].fetch = "cached"
        /\ tickCache[PoolOf(req[r])].data = req[r].run.arr

(* C5: at any moment at most one background worker exists, so at most one  *)
(* refresh pass is in progress, and as long as a worker exists             *)
(* isBackgroundUpdaterRunning is true, so that a start call returns        *)
(* without creating a worker.                                              *)
AtMostOneWorker ==
    /\ Cardinality({ w \in WorkerIds : wk[w].pc # "none" }) <= 1
    /\ Cardinality({ w \in WorkerIds : wk[w].pc \in {"initMc", "bitmaps", "ticks"} }) <= 1
    /\ (\E w \in WorkerIds : wk[w].pc # "none") => isBackgroundUpdaterRunning

(* stop has been called while the worker is inside a refresh: the          *)
(* controller is gone, the worker is still there and the flag still true.  *)
StoppedWorkerStillRefreshing ==
    \E w \in WorkerIds :
        /\ wk[w].pc \in {"initMc", "bitmaps", "ticks"}
        /\ wk[w].aborted
        /\ backgroundUpdaterAbortController = NoWorker
        /\ isBackgroundUpdaterRunning

----------------------------------------------------------------------------
(* Failures. *)

(* C6: when a background refresh of a pool ends in a failure (no provider, *)
(* a bitmap batch or a tick-data batch that throws), the cache and every   *)
(* cached list are as before, no quote request is touched, and the worker  *)
(* goes on to the next pool or to the wait before the next cycle (or ends, *)
(* when stop has been called).                                             *)
BackgroundFailureLeavesCache ==
    [][\A w \in WorkerIds :
         (/\ wk[w].pc \in {"initMc", "bitmaps", "ticks"}
          /\ wk'[w].pc \notin {"initMc", "bitmaps", "ticks"} \/ wk'[w].k # wk[w].k
          /\ wk'[w].last \in {"error", "noProvider"}) =>
            /\ tickCache' = tickCache
            /\ \A p \in Pools :
                 tickCache[p] # NoEntry =>
                    heap'[tickCache[p].data] = heap[tickCache[p].data]
            /\ req' = req
            /\ IF wk[w].aborted
               THEN wk'[w].pc = "none"
               ELSE \/ wk'[w].pc = "wait"
                    \/ /\ wk'[w].pc \in {"initMc", "bitmaps"}
                       /\ wk'[w].k = wk[w].k + 1]_vars

(* A refresh has failed, the worker waits for its next cycle, and the      *)
(* entry the pool had before the refresh ended is still in the cache.      *)
EntrySurvivesFailedRefresh ==
    \E w \in WorkerIds :
        /\ wk[w].pc = "wait"
        /\ wk[w].last = "error"
        /\ LET entry == tickCache[poolsToUpdateInBackground[1].address]
           IN /\ entry # NoEntry
              /\ entry.timestamp < wk[w].waitUntil - DEFAULT_BACKGROUND_UPDATE_INTERVAL_MS
              /\ Len(heap[entry.data]) > 0

(* C7: when a bitmap batch fails, the scan ends there: the fetch returns   *)
(* an empty list, none of the bitmaps or indices of the batches that came  *)
(* is kept, no tick-data batch is issued, no trade is taken and the cache  *)
(* is not written; the same holds for the background refresh.              *)
BitmapFailureAbortsScan ==
    [][/\ \A r \in Requests :
            (req[r].pc = "bitmaps" /\ req'[r].fetch = "bitmapError") =>
               /\ req'[r].pc \in {"slot0", "done"}
               /\ req'[r].run = NoRun
               /\ req'[r].bestTrade = req[r].bestTrade
               /\ tickCache' = tickCache
       /\ \A w \in WorkerIds :
            (wk[w].pc = "bitmaps" /\ wk'[w].last = "error") =>
               /\ wk'[w].pc # "ticks"
               /\ wk'[w].run = NoRun
               /\ tickCache' = tickCache]_vars

(* The second bitmap batch of an on-demand scan failed, after the first    *)
(* had come back, and the request ended without a route.                   *)
SecondBitmapBatchFailed ==
    \E r \in Requests :
        /\ req[r].pc = "done"
        /\ req[r].fetch = "bitmapError"
        /\ req[r].batch = 2
        /\ req[r].result = "noRoute"

(* C8: when a tick-data batch fails, the fetch returns an empty list: the  *)
(* results of the batches that came are dropped, no list is built or       *)
(* handed on, no pool is constructed, no trade is taken and the cache is   *)
(* not written.                                                            *)
TickDataFailureDiscardsPartial ==
    [][\A r \in Requests :
         (req[r].pc \in {"bitmaps", "ticks"} /\ req'[r].fetch = "tickDataError") =>
            /\ req'[r].pc \in {"slot0", "done"}
            /\ req'[r].run = NoRun
            /\ req'[r].bestTrade = req[r].bestTrade
            /\ tickCache' = tickCache
            /\ \A a \in ArrIds : heap'[a] # <<>> => heap'[a] = heap[a]]_vars

(* The second tick-data batch of an on-demand fetch failed, after the      *)
(* first had come back, and the request ended without a route.             *)
SecondTickBatchFailed ==
    \E r \in Requests :
        /\ req[r].pc = "done"
        /\ req[r].fetch = "tickDataError"
        /\ req[r].batch = 2
        /\ req[r].result = "noRoute"

----------------------------------------------------------------------------
(* The order of the two stages and the alignment of the records. *)

(* C9: a pipeline run, on demand or in the background, issues its first    *)
(* tick-data batch only in the step in which its last bitmap batch has     *)
(* come back: all earlier bitmap batches have returned, and the indices it *)
(* fetches are the decode of the bitmaps of every word of the range.       *)
BitmapScanBeforeTickData ==
    [][/\ \A r \in Requests :
            (req'[r].pc = "ticks" /\ req[r].pc # "ticks") =>
               LET wp == WordPositions(SpacingOf(req[r]))
                   run == req[r].run
               IN /\ req[r].pc = "bitmaps"
                  /\ Len(run.bitmaps) = run.i
                  /\ run.i + BATCH_SIZE >= Len(wp)
                  /\ req'[r].run.idx =
                        DecodeBitmaps(wp,
                            run.bitmaps \o BitmapBatch(chain[PoolOf(req[r])],
                                               Slice(wp, run.i, Len(wp)), SpacingOf(req[r])),
                            SpacingOf(req[r]))
       /\ \A w \in WorkerIds :
            (wk'[w].pc = "ticks" /\ wk[w].pc # "ticks") =>
               LET info == poolsToUpdateInBackground[wk[w].k]
                   wp == WordPositions(info.tickSpacing)
                   run == wk[w].run
               IN /\ wk[w].pc = "bitmaps"
                  /\ Len(run.bitmaps) = run.i
                  /\ run.i + BATCH_SIZE >= Len(wp)
                  /\ wk'[w].run.idx =
                        DecodeBitmaps(wp,
                            run.bitmaps \o BitmapBatch(chain[info.address],
                                               Slice(wp, run.i, Len(wp)), info.tickSpacing),
                            info.tickSpacing)]_vars

(* A request is in its tick-data stage after a scan of more than one       *)
(* bitmap batch.                                                           *)
TickStageAfterBatchedScan ==
    \E r \in Requests :
        /\ req[r].pc = "ticks"
        /\ Len(req[r].run.idx) > 0
        /\ Len(WordPositions(SpacingOf(req[r]))) > BATCH_SIZE

(* C10: the list a successful run builds has one record for each index of  *)
(* the input list, in the same order: record k carries index k of the      *)
(* input and the liquidity the chain returned for that very index, those   *)
(* of the earlier batches as they came, those of the last batch as the     *)
(* chain holds them now.                                                   *)
TickRecordsAligned ==
    [][/\ \A r \in Requests :
            (req[r].pc = "ticks" /\ req'[r].fetch = "cached") =>
               LET run == req[r].run
                   out == heap'[run.arr]
                   ps == chain[PoolOf(req[r])]
               IN /\ Len(out) = Len(run.idx)
                  /\ \A k \in 1..Len(run.idx) :
                       /\ out[k].index = run.idx[k]
                       /\ out[k].call = run.idx[k]
                       /\ k <= run.i =>
                            /\ out[k].liquidityGross = run.res[k].liquidityGross
                            /\ out[k].liquidityNet = run.res[k].liquidityNet
                       /\ k > run.i =>
                            /\ out[k].liquidityGross = ChainLiquidityGross(ps, run.idx[k])
                            /\ out[k].liquidityNet = ChainLiquidityNet(ps, run.idx[k])
       /\ \A w \in WorkerIds :
            (/\ wk[w].pc = "ticks"
             /\ wk'[w].pc # "ticks" \/ wk'[w].k # wk[w].k
             /\ wk'[w].last = "cached") =>
               LET run == wk[w].run
                   out == heap'[run.arr]
                   ps == chain[poolsToUpdateInBackground[wk[w].k].address]
               IN /\ Len(out) = Len(run.idx)
                  /\ \A k \in 1..Len(run.idx) :
                       /\ out[k].index = run.idx[k]
                       /\ out[k].call = run.idx[k]
                       /\ k <= run.i =>
                            /\ out[k].liquidityGross = run.res[k].liquidityGross
                            /\ out[k].liquidityNet = run.res[k].liquidityNet
                       /\ k > run.i =>
                            /\ out[k].liquidityGross = ChainLiquidityGross(ps, run.idx[k])
                            /\ out[k].liquidityNet = ChainLiquidityNet(ps, run.idx[k])]_vars

(* An on-demand fetch of more indices than one batch holds has succeeded   *)
(* and the request holds the list it built.                                *)
BatchedFetchSucceeded ==
    \E r \in Requests :
        /\ req[r].pc = "trade"
        /\ req[r].fetch = "cached"
        /\ req[r].batch = 2
        /\ Len(heap[req[r].run.arr]) > BATCH_SIZE

----------------------------------------------------------------------------
(* The pool model a request builds. *)

(* C11: the pool a request has constructed has a totalLiquidity equal to   *)
(* the sum of liquidityNet over the ticks of its list whose index is at or *)
(* below the current tick, whatever the chain did between the read of      *)
(* slot0/liquidity and the reads behind the tick list.                     *)
PoolLiquidityMatchesTickList ==
    \A r \in Requests :
        req[r].pc = "trade" =>
            LET ticks == heap[req[r].run.arr]
                n == Len(ticks)
                swept[k \in 0..n] ==
                    IF k = 0 THEN 0
                    ELSE swept[k - 1] + (IF ticks[k].index <= ChainCurrentTick
                                         THEN ticks[k].liquidityNet ELSE 0)
            IN req[r].liq = swept[n]

----------------------------------------------------------------------------
(* Cancellation. *)

(* C12: stop aborts the signal of the worker the controller belongs to,    *)
(* and from then on every step of that worker either goes on with the      *)
(* refresh it was in (same pool, provider init, then bitmaps, then ticks)  *)
(* or ends the worker: it starts no refresh and enters no wait.            *)
NoRefreshStartsAfterStop ==
    [][/\ \A w \in WorkerIds :
            (backgroundUpdaterAbortController = w
               /\ backgroundUpdaterAbortController' = NoWorker) => wk'[w].aborted
       /\ \A w \in WorkerIds :
            (wk[w].aborted /\ wk'[w] # wk[w]) =>
               \/ wk'[w].pc = "none"
               \/ /\ wk[w].pc \in {"initMc", "bitmaps", "ticks"}
                  /\ wk'[w].pc \in {"bitmaps", "ticks"}
                  /\ wk'[w].pc = "bitmaps" => wk[w].pc # "ticks"
                  /\ wk'[w].k = wk[w].k
                  /\ wk'[w].aborted
                  /\ wk'[w].run.i >= wk[w].run.i \/ wk[w].pc = "bitmaps"]_vars

(* stop has been called while a refresh was between two tick-data batches: *)
(* the controller is gone and the refresh goes on.                         *)
StoppedDuringTickBatches ==
    \E w \in WorkerIds :
        /\ wk[w].aborted
        /\ wk[w].pc = "ticks"
        /\ wk[w].run.i > 0
        /\ backgroundUpdaterAbortController = NoWorker

----------------------------------------------------------------------------
(* The two copies of the pipeline. *)

(* C13: on an unchanging chain the background refresh and the on-demand    *)
(* fetch build the same tick list: whenever either replaces an entry, the  *)
(* new list equals the one it replaces, record for record, and the list a  *)
(* request holds from its own fetch equals the list the worker has put in  *)
(* the cache since.                                                        *)
PipelinesAgree ==
    [][/\ \A p \in Pools :
            (tickCache'[p] # tickCache[p] /\ tickCache[p] # NoEntry) =>
               heap'[tickCache'[p].data] = heap[tickCache[p].data]
       /\ \A r \in Requests :
            (req'[r].pc = "trade" /\ req'[r].fetch = "cached") =>
               heap'[tickCache'[PoolOf(req'[r])].data] = heap'[req'[r].run.arr]]_vars

(* A request holds the list of its own on-demand fetch while the cache     *)
(* holds another array, the one the worker's refresh has stored since.     *)
BothPipelinesCached ==
    \E r \in Requests, w \in WorkerIds :
        /\ req[r].pc = "trade"
        /\ req[r].fetch = "cached"
        /\ wk[w].last = "cached"
        /\ tickCache[PoolOf(req[r])].data # req[r].run.arr
        /\ Len(heap[req[r].run.arr]) > BATCH_SIZE

----------------------------------------------------------------------------
(* The bitmap scan as a function of the bitmap content. *)

(* C14: every index a scan produces, in either variant, for every bitmap   *)
(* content and every tick spacing of a fee tier, is a multiple of the tick *)
(* spacing and lies in MIN_TICK..MAX_TICK.                                 *)
ScanIndicesAlignedInRange ==
    probe.stage = "scanned" =>
        \A list \in {probe.sorted, probe.unsorted} :
            \A k \in 1..Len(list) :
                /\ list[k] % probe.tickSpacing = 0
                /\ list[k] >= MIN_TICK
                /\ list[k] <= MAX_TICK

(* A scan at tick spacing 10 of a content with a bit set beyond MAX_TICK   *)
(* and a bit set below MIN_TICK has produced an index.                     *)
ScanDroppedOutOfRangeBits ==
    /\ probe.stage = "scanned"
    /\ probe.tickSpacing = 10
    /\ \E c \in probe.bits : c * probe.tickSpacing > MAX_TICK
    /\ \E c \in probe.bits : c * probe.tickSpacing < MIN_TICK
    /\ Len(probe.sorted) > 0

(* C15: the index list of a scan is strictly increasing, hence without     *)
(* duplicates, for every bitmap content, both in the variant that sorts    *)
(* and in the variant that keeps the order of the word and bit loops, and  *)
(* both variants produce the same list.                                    *)
ScanStrictlyIncreasing ==
    probe.stage = "scanned" =>
        /\ \A list \in {probe.sorted, probe.unsorted} :
              \A k \in 1..(Len(list) - 1) : list[k] < list[k + 1]
        /\ probe.sorted = probe.unsorted

(* A scan has produced indices from more than one word, two of them        *)
(* negative.                                                               *)
ScanAcrossWords ==
    /\ probe.stage = "scanned"
    /\ Len(probe.unsorted) = MaxBits
    /\ probe.unsorted[2] < 0
    /\ _tickToWord(probe.unsorted[1], probe.tickSpacing)
         # _tickToWord(probe.unsorted[MaxBits], probe.tickSpacing)

(* C16: the bitmap of word w with exactly the bits of B set decodes to     *)
(* exactly the indices (w * WORD_SIZE + b) * tickSpacing for the b in B    *)
(* that lie in MIN_TICK..MAX_TICK, each once.                              *)
WordDecodeBitExact ==
    probe.stage = "word" =>
        LET B == { b \in 0..(WORD_SIZE - 1) : probe.word * WORD_SIZE + b \in probe.bits }
            expected == { t \in MIN_TICK..MAX_TICK :
                            \E b \in B : t = (probe.word * WORD_SIZE + b) * probe.tickSpacing }
        IN /\ { probe.out[k] : k \in 1..Len(probe.out) } = expected
           /\ Len(probe.out) = Cardinality(expected)

(* A negative word with its top bit and another bit set, one of the two    *)
(* out of range, has been decoded to the one index in range.               *)
NegativeWordDecoded ==
    /\ probe.stage = "word"
    /\ probe.word < 0
    /\ probe.word * WORD_SIZE + WORD_SIZE - 1 \in probe.bits
    /\ Cardinality({ b \in 0..(WORD_SIZE - 1) :
                       probe.word * WORD_SIZE + b \in probe.bits }) = 2
    /\ Len(probe.out) = 1

(* C17: the scan with one batch size and the scan of the same bitmap       *)
(* content with another batch size produce the same index list, also when  *)
(* the batch size does not divide the number of words.                     *)
BatchSizeIndependent ==
    probe.stage = "retimed" => probe.out2 = probe.out

(* The same content has been scanned in batches of BATCH_SIZE + 1 words,   *)
(* which does not divide the number of words, and in batches of BATCH_SIZE, *)
(* and indices were found.                                                 *)
ScannedWithTwoBatchSizes ==
    /\ probe.stage = "retimed"
    /\ probe.batchSize = BATCH_SIZE + 1
    /\ probe.batchSize2 = BATCH_SIZE
    /\ Len(WordPositions(probe.tickSpacing)) % probe.batchSize # 0
    /\ Len(probe.out2) > 1

----------------------------------------------------------------------------
(* Refreshing again. *)

(* C18: on an unchanging chain a refresh that replaces the entry of an     *)
(* earlier refresh stores, in a new array, a tick list equal to the one it *)
(* replaces; only the timestamp moves, and never backwards.                *)
RefreshIdempotent ==
    [][\A p \in Pools :
         (tickCache'[p] # tickCache[p] /\ tickCache[p] # NoEntry) =>
            /\ \E w \in WorkerIds : wk[w].pc = "ticks" /\ wk'[w].last = "cached"
            /\ tickCache'[p].data # tickCache[p].data
            /\ heap'[tickCache'[p].data] = heap[tickCache[p].data]
            /\ tickCache'[p].timestamp >= tickCache[p].timestamp]_vars

(* The worker has refreshed the pool for the second time, a cycle later:   *)
(* the entry has the later timestamp and holds the second array, the one   *)
(* the run took while the first was still the entry.                       *)
RefreshedTwice ==
    \E w \in WorkerIds :
        /\ wk[w].pc = "wait"
        /\ wk[w].last = "cached"
        /\ LET entry == tickCache[poolsToUpdateInBackground[1].address]
           IN /\ entry.timestamp = ClockInstant(1)
              /\ entry.data = 2
              /\ Len(heap[entry.data]) > BATCH_SIZE

----------------------------------------------------------------------------
(* The empty scan. *)

(* C19: when every bitmap word of the pool is zero, a request never issues *)
(* a tick-data batch: the step that ends its bitmap stage returns an empty *)
(* list (logging that no ticks were found, unless a batch failed), leaves  *)
(* the cache and the best trade as they are and skips the tier, so that    *)
(* the loop goes on and the request ends as one without a route.           *)
EmptyScanSkipsTier ==
    [][\A r \in Requests :
         (/\ req[r].pc = "bitmaps"
          /\ \A k \in 1..Len(WordPositions(SpacingOf(req[r]))) :
                ChainTickBitmap(chain[PoolOf(req[r])],
                                WordPositions(SpacingOf(req[r]))[k],
                                SpacingOf(req[r])) = {}) =>
            /\ req'[r].pc \in {"bitmaps", "slot0", "done"}
            /\ req'[r].pc # "bitmaps" =>
                 /\ req'[r].fetch \in {"noTicks", "bitmapError"}
                 /\ req'[r].run = NoRun
                 /\ req'[r].bestTrade = req[r].bestTrade
                 /\ tickCache' = tickCache
                 /\ req'[r].pc = "done" => req'[r].result = "noRoute"]_vars

(* The scan of a pool without an initialized tick went through all its     *)
(* bitmap batches, found nothing, and the request ended without a route.   *)
EmptyScanEnded ==
    \E r \in Requests :
        /\ req[r].pc = "done"
        /\ req[r].fetch = "noTicks"
        /\ req[r].batch = 2
        /\ req[r].result = "noRoute"
        /\ chain[PoolAddress(req[r].pair, feeTiersToTry[Len(feeTiersToTry)])] = {}

----------------------------------------------------------------------------
(* The tier loop. *)

----------------------------------------------------------------------------
(* The selection among the fee tiers. *)

(* C21: over any list of fee tiers, in any order, when at least one tier   *)
(* produced a trade the function returns a trade, its output amount is the *)
(* greatest among the trades the tiers produced, and it is the trade of a  *)
(* tier that produced it with that amount.                                 *)
BestOutputWins ==
    probe.stage = "returned" =>
        LET valid == { k \in 1..Len(probe.tiers) : probe.tiers[k].kind = "trade" }
        IN valid # {} =>
              /\ probe.result = "trade"
              /\ \A k \in valid : probe.bestTrade.outputAmount >= probe.tiers[k].outputAmount
              /\ \E k \in valid :
                    probe.bestTrade = [fee |-> ProbeFees[k],
                                       outputAmount |-> probe.tiers[k].outputAmount]

(* The first tier produced a trade, a later tier produced one with a       *)
(* greater output amount, and the later tier's trade was returned.         *)
LaterTierWon ==
    /\ probe.stage = "returned"
    /\ Len(probe.tiers) >= 2
    /\ probe.tiers[1].kind = "trade"
    /\ probe.tiers[2].kind = "trade"
    /\ probe.tiers[2].outputAmount > probe.tiers[1].outputAmount
    /\ probe.bestTrade.fee = ProbeFees[2]
    /\ probe.result = "trade"

(* C22: a request that has gone through its tiers ends either by returning *)
(* a trade or by throwing the no-route error, never with anything else; it *)
(* returns a trade exactly when bestTrade is set, and bestTrade is only    *)
(* ever set in the step in which a tier's trade construction succeeded, to *)
(* that tier's trade: a tier that was skipped or that failed gives none.   *)
NoRouteIffNoTrade ==
    [][\A r \in Requests :
         /\ (/\ req[r].pc \in {"slot0", "initMc", "bitmaps", "ticks", "trade"}
             /\ req'[r].pc = "done") =>
               /\ req'[r].result \in {"trade", "noRoute"}
               /\ req'[r].result = "trade" <=> req'[r].bestTrade # NoTrade
               /\ req'[r].tierLog \in {"skip", "poolSetupError", "tradeError"} =>
                     req'[r].bestTrade = req[r].bestTrade
         /\ (req'[r].bestTrade # req[r].bestTrade /\ req'[r].bestTrade # NoTrade) =>
               /\ req[r].pc = "trade"
               /\ req'[r].tierLog = "trade"
               /\ req'[r].bestTrade.fee = feeTiersToTry[req[r].tier]
               /\ req'[r].bestTrade.outputAmount \in OutputAmounts]_vars

(* The trade construction of the last tier threw, no tier had produced a   *)
(* trade, and the request ended with the no-route error.                   *)
EveryTierFailedNoRoute ==
    \E r \in Requests :
        /\ req[r].pc = "done"
        /\ req[r].tierLog = "tradeError"
        /\ req[r].bestTrade = NoTrade
        /\ req[r].result = "noRoute"

----------------------------------------------------------------------------
(* Tiers without liquidity. *)

(* C23: when the fetch of a tier has ended and the total liquidity read    *)
(* for the tier is zero or the tick list handed back is empty, the request *)
(* constructs no pool and simulates no swap: it logs that it skips the     *)
(* tier, not an error, keeps its best trade and goes on to the next tier   *)
(* or to the normal end of the function.                                   *)
EmptyTierSkipped ==
    [][\A r \in Requests :
         (/\ req[r].pc \in {"slot0", "initMc", "bitmaps", "ticks"}
          /\ req'[r].pc \in {"slot0", "done", "trade"}
          /\ req'[r] # req[r]
          /\ req'[r].lookup # NoLookup) =>
            LET pool == PoolOf(req[r])
                totalLiquidity ==
                    IF req[r].pc = "slot0"
                    THEN ChainLiquidity(chain[pool], ChainCurrentTick) ELSE req[r].liq
                allInitializedTicks ==
                    IF req'[r].fetch = "cached" THEN heap'[req[r].run.arr]
                    ELSE IF req'[r].lookup.kind = "HIT" THEN heap[tickCache[pool].data]
                    ELSE <<>>
            IN (totalLiquidity = 0 \/ Len(allInitializedTicks) = 0) =>
                  /\ req'[r].pc # "trade"
                  /\ req'[r].run = NoRun
                  /\ req'[r].tierLog = "skip"
                  /\ req'[r].bestTrade = req[r].bestTrade
                  /\ req'[r].pc = "done" =>
                        req'[r].result = IF req[r].bestTrade # NoTrade
                                         THEN "trade" ELSE "noRoute"]_vars

(* A request fetched and cached the ticks of a pool whose liquidity in     *)
(* range is zero, skipped the tier and ended without a route.              *)
ZeroLiquidityTierSkipped ==
    \E r \in Requests :
        /\ req[r].pc = "done"
        /\ req[r].fetch = "cached"
        /\ req[r].tierLog = "skip"
        /\ req[r].result = "noRoute"
        /\ tickCache[PoolAddress(req[r].pair, feeTiersToTry[Len(feeTiersToTry)])] # NoEntry

----------------------------------------------------------------------------
(* Tick lists that are not aligned. *)

(* C24: a tick list with an index that is not a multiple of the tier's     *)
(* tick spacing never gives a pool, whatever else the list holds: when the *)
(* total liquidity is not zero the construction throws, and the tier ends  *)
(* in the pool setup error; no index is rounded to make the list pass.     *)
UnalignedListRejected ==
    (/\ probe.stage = "built"
     /\ \E k \in 1..Len(probe.ticks) : probe.ticks[k].index % probe.tickSpacing # 0) =>
        /\ probe.outcome # "pool"
        /\ probe.totalLiquidity # 0 => probe.outcome = "poolSetupError"

(* A list at tick spacing 10 with the aligned index 0 and an index that is *)
(* not aligned, on a pool with liquidity, ended in the pool setup error.   *)
UnalignedIndexFailedTier ==
    /\ probe.stage = "built"
    /\ probe.tickSpacing = 10
    /\ probe.totalLiquidity # 0
    /\ \E k \in 1..Len(probe.ticks) : probe.ticks[k].index = 0
    /\ \E k \in 1..Len(probe.ticks) : probe.ticks[k].index % probe.tickSpacing # 0
    /\ probe.outcome = "poolSetupError"

----------------------------------------------------------------------------
(* The cache hit. *)

(* C26: when a request looks up a pool whose entry is younger than twice   *)
(* the refresh interval, the lookup is a hit: the request starts no        *)
(* provider init, no bitmap batch and no tick-data batch, the cache and    *)
(* the cached list stay exactly as they are, and the list the request goes *)
(* on with is the cached array itself.                                     *)
FreshHitFetchesNothing ==
    [][\A r \in Requests :
         LET entry == tickCache[PoolOf(req[r])]
         IN (/\ req[r].pc = "slot0"
             /\ req'[r] # req[r]
             /\ req'[r].lookup # NoLookup
             /\ entry # NoEntry
             /\ DateNow - entry.timestamp < 2 * DEFAULT_BACKGROUND_UPDATE_INTERVAL_MS) =>
               /\ req'[r].lookup.kind = "HIT"
               /\ req'[r].pc \notin {"initMc", "bitmaps", "ticks"}
               /\ req'[r].batch = 0
               /\ req'[r].fetch = "none"
               /\ tickCache' = tickCache
               /\ heap'[entry.data] = heap[entry.data]
               /\ req'[r].pc = "trade" => req'[r].run.arr = entry.data]_vars

(* No worker has ever run: the entry is the work of an earlier request's   *)
(* on-demand fetch, and a later request has been served from it.           *)
LaterRequestServedFromCache ==
    \E r \in Requests :
        /\ req[r].pc = "trade"
        /\ req[r].lookup.kind = "HIT"
        /\ req[r].fetch = "none"
        /\ \A w \in WorkerIds : wk[w] = IdleWorker
        /\ req[r].run.arr = tickCache[PoolOf(req[r])].data

----------------------------------------------------------------------------
(* The word of a tick. *)

(* C30: for every tick and every positive tick spacing, _tickToWord gives  *)
(* floor(floor(tick / tickSpacing) / WORD_SIZE), the word that holds the   *)
(* tick's compressed position, also for negative ticks that are not        *)
(* multiples of the tick spacing.                                          *)
TickToWordIsFloorOfFloor ==
    probe.stage = "worded" =>
        probe.word = (probe.tick \div probe.tickSpacing) \div WORD_SIZE

----------------------------------------------------------------------------
(* The price service. *)

(* C27: a call during which the chain was reported halted on Maya returns  *)
(* null, whatever the prices.                                              *)
HaltedReturnsNull ==
    (arb.pc = "done" /\ arb.halted) => arb.result.kind = "null"

(* C28: when both prices are there, the call returns null if the absolute  *)
(* percentage difference |maya - uniswap| / uniswap * 100 is below the     *)
(* configured threshold, and otherwise an opportunity that carries the signed  *)
(* difference (maya - uniswap) / uniswap * 100 and the direction           *)
(* MAYA_TO_UNISWAP when the Maya price is the lower one, UNISWAP_TO_MAYA   *)
(* when it is not.                                                         *)
ThresholdDecides ==
    (arb.pc = "done" /\ arb.mayaPrice # 0 /\ arb.uniswapPrice # 0) =>
        LET maya == arb.mayaPrice
            uniswap == arb.uniswapPrice
            distance == IF maya < uniswap THEN uniswap - maya ELSE maya - uniswap
        IN IF distance * 100 * minProfitThreshold.den < minProfitThreshold.num * uniswap
           THEN arb.result.kind = "null"
           ELSE /\ arb.result.kind = "opportunity"
                /\ arb.result.priceDifferencePercent.den = uniswap
                /\ arb.result.priceDifferencePercent.num = (maya - uniswap) * 100
                /\ arb.result.direction =
                      IF maya < uniswap THEN "MAYA_TO_UNISWAP" ELSE "UNISWAP_TO_MAYA"

(* The chain was not halted, the Maya price is above the Uniswap price by  *)
(* exactly the threshold, and the opportunity was returned.                *)
OpportunityAtThreshold ==
    /\ arb.pc = "done"
    /\ ~arb.halted
    /\ arb.mayaPrice > arb.uniswapPrice
    /\ arb.uniswapPrice # 0
    /\ (arb.mayaPrice - arb.uniswapPrice) * 100 * minProfitThreshold.den
         = minProfitThreshold.num * arb.uniswapPrice
    /\ arb.result.kind = "opportunity"
    /\ arb.result.direction = "UNISWAP_TO_MAYA"

----------------------------------------------------------------------------
(* The word range of the scan. *)

(* C31: the words minWord..maxWord of the scan cover the whole tick range: *)
(* every initialized tick of [MIN_TICK, MAX_TICK] that is a multiple of    *)
(* the tick spacing is found by the scan, whether the spacing divides the  *)
(* range or not.                                                           *)
ScanCoversRange ==
    probe.stage = "scanned" =>
        \A c \in probe.bits :
            \E k \in 1..Len(probe.sorted) : probe.sorted[k] = c * probe.tickSpacing

(* The spacing does not divide MIN_TICK, and the lowest and the highest    *)
(* multiple of it in the range are initialized and were found.             *)
RangeEndsScanned ==
    /\ probe.stage = "scanned"
    /\ MIN_TICK % probe.tickSpacing # 0
    /\ \E lo \in probe.bits, hi \in probe.bits :
         /\ (lo - 1) * probe.tickSpacing < MIN_TICK
         /\ (hi + 1) * probe.tickSpacing > MAX_TICK
         /\ \E k \in 1..Len(probe.sorted) : probe.sorted[k] = lo * probe.tickSpacing
         /\ \E k \in 1..Len(probe.sorted) : probe.sorted[k] = hi * probe.tickSpacing

----------------------------------------------------------------------------
(* Overlapping pipeline runs and the content of the cache. *)

(* C35: a cache write never replaces an entry by older data: when the      *)
(* entry of a pool holds the list of the chain as it is now, the entry     *)
(* that replaces it holds that list too.                                   *)
NoOlderDataWritten ==
    [][\A p \in Pools :
         (/\ tickCache[p] # NoEntry
          /\ tickCache'[p] # tickCache[p]
          /\ tickCache'[p] # NoEntry
          /\ heap[tickCache[p].data] = ChainTickList(chain[p], feeToTickSpacing(p[2]))) =>
            heap'[tickCache'[p].data] = ChainTickList(chain[p], feeToTickSpacing(p[2]))]_vars

(* C36: at most one pipeline run (bitmap scan, then tick-data fetch) is in *)
(* progress for a pool at any time, on demand or in the background.        *)
OnePipelineRunPerPool ==
    \A p \in Pools :
        Cardinality({ w \in WorkerIds :
                        /\ wk[w].pc \in {"bitmaps", "ticks"}
                        /\ poolsToUpdateInBackground[wk[w].k].address = p })
          + Cardinality({ r \in Requests :
                            /\ req[r].pc \in {"bitmaps", "ticks"}
                            /\ PoolOf(req[r]) = p }) <= 1

(* C37: every entry of the cache holds a non-empty tick list, and every    *)
(* change of an entry puts an entry with a non-empty list: no step removes *)
(* an entry or stores an empty list, whether the run it ends yields no     *)
(* tick or fails.                                                          *)
CacheEntriesNonEmpty ==
    /\ [](\A p \in Pools : tickCache[p] # NoEntry => Len(heap[tickCache[p].data]) > 0)
    /\ [][\A p \in Pools :
            tickCache'[p] # tickCache[p] =>
               /\ tickCache'[p] # NoEntry
               /\ Len(heap'[tickCache'[p].data]) > 0]_vars

(* A refresh has failed and the entry the pool had is still there with its *)
(* list.                                                                   *)
ZeroTickRunLeftCache ==
    LET p == poolsToUpdateInBackground[1].address
    IN /\ \E w \in WorkerIds : wk[w].last = "error"
       /\ tickCache[p] # NoEntry
       /\ Len(heap[tickCache[p].data]) > 0

----------------------------------------------------------------------------
(* Start and stop of the background updater. *)

(* A worker is running and has not been told to stop. *)
LiveWorker(w) == wk[w].pc # "none" /\ ~wk[w].aborted

(* The timer a waiting worker awaits can fire within the instants of the   *)
(* clock: its time has come, or time can still pass.                       *)
TimerCanFire(w) ==
    wk[w].pc = "wait" => (DateNow >= wk[w].waitUntil \/ clock < MaxClockSteps)

(* C32: after a call of stopBackgroundTickUpdater followed by a call of    *)
(* startBackgroundTickUpdater, a worker is eventually running again,       *)
(* wherever the stopped worker was in its cycle.  A start call that takes  *)
(* effect leaves a worker running at once; the case stated is the start    *)
(* call that finds the flag still set: the controller is null (the last    *)
(* effective call was a stop) and the last line logged is that of the      *)
(* start call.                                                             *)
RestartResumesRefreshing ==
    (/\ controlLog = "alreadyRunning"
     /\ backgroundUpdaterAbortController = NoWorker
     /\ \A w \in WorkerIds : TimerCanFire(w))
      ~> (\E w \in WorkerIds : LiveWorker(w))

(* C33: a worker that has been told to stop eventually ends, and the flag  *)
(* isBackgroundUpdaterRunning is then false, provided the chain reads come *)
(* back and the timer it may be waiting for can fire; a worker that ends   *)
(* through an error leaves the flag false as well.                         *)
StoppedWorkerExits ==
    \A w \in WorkerIds :
        (wk[w].pc # "none" /\ wk[w].aborted /\ TimerCanFire(w))
          ~> (wk[w].pc = "none" /\ ~isBackgroundUpdaterRunning)

(* The updater was stopped, its worker has ended its refresh and itself    *)
(* since, and the flag is false.                                           *)
StoppedUpdaterEnded ==
    /\ controlLog = "stopping"
    /\ \E w \in WorkerIds : wk[w].last \in {"cached", "error"}
    /\ \A w \in WorkerIds : wk[w].pc = "none"
    /\ ~isBackgroundUpdaterRunning

(* C34: a worker that is told to stop during its inter-cycle wait leaves   *)
(* the wait on the signal: it can go on whether or not the update interval *)
(* has elapsed.                                                            *)
WaitEndsOnAbort ==
    \A w \in WorkerIds :
        (wk[w].pc = "wait" /\ wk[w].aborted) => ENABLED WorkerWaitDone(w)

----------------------------------------------------------------------------
(* The entries of other pools. *)

(* The entry of pool p and the list it holds stay as they are in the step. *)
EntryKept(p) ==
    /\ tickCache'[p] = tickCache[p]
    /\ tickCache[p] # NoEntry => heap'[tickCache[p].data] = heap[tickCache[p].data]

(* C38: a step of a pipeline run for one pool, on demand or in the         *)
(* background, whether it goes on, ends well or fails, leaves the entry of *)
(* every other pool as it is, data and timestamp.                          *)
OtherPoolsKept ==
    [][/\ \A r \in Requests :
            (req[r].pc \in {"bitmaps", "ticks"} /\ req'[r] # req[r]) =>
               \A p \in Pools \ {PoolOf(req[r])} : EntryKept(p)
       /\ \A w \in WorkerIds :
            (wk[w].pc \in {"bitmaps", "ticks"} /\ wk'[w] # wk[w]) =>
               \A p \in Pools \ {poolsToUpdateInBackground[wk[w].k].address} :
                  EntryKept(p)]_vars

(* A later run has written the entry of one pool while the other pool has  *)
(* the entry of an earlier run.                                            *)
OtherEntryOutlivedRun ==
    \E p \in Pools, q \in Pools :
        /\ tickCache[p] # NoEntry
        /\ tickCache[q] # NoEntry
        /\ tickCache[p].timestamp < tickCache[q].timestamp

----------------------------------------------------------------------------
(* Shutdown. *)

(* C39: once SIGINT has set keepRunning to false, no further check cycle   *)
(* starts; a timer of the sleep loop that fires takes main out of the      *)
(* loop, whatever is left of the sleep time; and when the process exits    *)
(* stopBackgroundTickUpdater has been called: the controller is null and   *)
(* the stop is the last call logged.                                       *)
ShutdownStopsLoop ==
    /\ [][/\ (~main.keepRunning /\ main.pc # "cycle") => main'.pc # "cycle"
          /\ (~main.keepRunning /\ main.pc = "sleep" /\ main'.polls # main.polls) =>
                main'.pc = "ended"]_vars
    /\ [](main.exit = "exited" =>
            /\ backgroundUpdaterAbortController = NoWorker
            /\ controlLog = "stopping")

(* SIGINT came during the sleep, main left the loop with sleep time left   *)
(* and the process has exited.                                             *)
LeftSleepEarly ==
    /\ main.pc = "ended"
    /\ main.polls > 0
    /\ main.exit = "exited"
    /\ controlLog = "stopping"

====
